---- MODULE Spec2Model ----
(***************************************************************************)
(* Model of AutoConfigBrowser: profile discovery (profiles.ini parsing),   *)
(* extension-registry export, manifest identity extraction and the XPI     *)
(* install pipeline.                                                       *)
(*                                                                         *)
(* Text is modelled as sequences of one-character strings so that trim,    *)
(* startsWith and split are computed the way the code computes them.       *)
(***************************************************************************)
EXTENDS Integers, Sequences, FiniteSets, TLC

VARIABLES
    profilesIni,   \* the registry file: [exists, text]
    fsDirs,        \* directories on disk (paths below the Firefox base directory)
    fsFiles,       \* regular files on disk (paths below the Firefox base directory)
    discOut,       \* result of parseDefaultProfilePathFromProfilesIni (profile-discovery.ts)
    xpiOut,        \* result of the inline parser of getFirefoxExtensionsDirectory (xpi.ts)
    locOp,         \* which locator operation ran
    locRet,        \* what it returned or threw
    fsBefore,      \* the disk as it was when the locator operation started
    extensionsJson, \* <profile>/extensions.json: [exists, valid, hasAddons, addons]
    addonsJson,    \* <profile>/addons.json: [exists, valid, hasAddons, addons]
    regOp,         \* which registry operation ran
    regRet,        \* what it returned or threw: [ok, urls, err]
    regRead,       \* the registry files whose text was read
    manifest,      \* the staged archive's manifest.json: [unzips, parses, applications, browser_specific_settings]
    idRet,         \* what getExtensionId returned or threw: [done, ok, id]
    urlsFile,      \* ./src/urls.json: [exists, valid, hasUrls, urls]
    batchPc,       \* installXPIFromUrls: "start", "iterating", "returned", "threw", "exited"
    urlIndex,      \* position in urls of the URL being installed
    pc,            \* installXPIFromUrl: the step about to run, "idle" or "settled"
    tempFilePath,  \* the staged file's name
    buffer,        \* the downloaded archive
    tmpFiles,      \* the temporary directory: name -> archive
    pending,       \* the exception thrown inside the try block, or "none"
    installResult, \* what installXPIFromUrl settled with: "ok" or the error
    unlinkTried,   \* the finally block called unlink
    unlinkThrew,   \* and unlink threw
    extFiles,      \* the extensions directory: identity -> archive (<identity>.xpi)
    log,           \* console.error and console.warn lines
    attempted,     \* the URLs installXPIFromUrl was called with, in order
    outcomes,      \* what each of those calls settled with
    exitCode,      \* the status the process exited with: "none" while it runs, "0" or "1"
    metadataMap,   \* what getExtensionMetadataMap returned or threw: [done, ok, map]
    menuPc,        \* runMainMenu: "prompt", "ended", or "crashed" when an error escaped the loop
    rounds,        \* how many times the menu prompt was answered
    lastChoice,    \* the last answer to the menu prompt
    selected,      \* the last answer to the multiselect prompt: [cancelled, urls]
    entryPc,       \* the non-interactive entrypoint: "awaiting" the batch, or "settled"
    runs,          \* concurrent invocations of installXPIFromUrl: [pc, tempFilePath, archive, pending]
    variantRet     \* what the install pipeline without its inspect step settles with

diskVars == <<profilesIni, fsDirs, fsFiles>>
parseVars == <<discOut, xpiOut>>
locVars == <<locOp, locRet, fsBefore>>
regVars == <<extensionsJson, addonsJson, regOp, regRet, regRead>>
manVars == <<manifest, idRet>>
installVars == <<urlsFile, batchPc, urlIndex, pc, tempFilePath, buffer, tmpFiles, pending,
                 installResult, unlinkTried, unlinkThrew, extFiles, log, attempted, outcomes,
                 exitCode>>
menuVars == <<menuPc, rounds, lastChoice, selected>>
appVars == <<metadataMap, menuVars, entryPc, runs, variantRet>>

----------------------------------------------------------------------------
(* Bounds *)

MaxLines == 4
MaxLocLines == 3
MaxAddons == 2
MaxUrls == 2

----------------------------------------------------------------------------
(* JavaScript string primitives over sequences of characters *)

IsWs(c) == c \in {" ", "\t", "\r", "\n"}

\* String.prototype.trim
Trim(s) ==
    LET keep == {i \in 1..Len(s) : ~IsWs(s[i])}
    IN  IF keep = {} THEN <<>>
        ELSE LET lo == CHOOSE i \in keep : \A j \in keep : i <= j
                 hi == CHOOSE i \in keep : \A j \in keep : i >= j
             IN  SubSeq(s, lo, hi)

\* String.prototype.startsWith
StartsWith(s, p) == Len(s) >= Len(p) /\ SubSeq(s, 1, Len(p)) = p

\* String.prototype.split with a one-character separator
RECURSIVE Split(_, _)
Split(s, sep) ==
    LET hits == {i \in 1..Len(s) : s[i] = sep}
    IN  IF hits = {} THEN <<s>>
        ELSE LET i == CHOOSE k \in hits : \A j \in hits : k <= j
             IN  <<SubSeq(s, 1, i - 1)>> \o Split(SubSeq(s, i + 1, Len(s)), sep)

\* Array.prototype.join with a one-character separator
RECURSIVE Join(_, _)
Join(parts, sep) ==
    IF Len(parts) = 0 THEN <<>>
    ELSE IF Len(parts) = 1 THEN parts[1]
    ELSE parts[1] \o <<sep>> \o Join(Tail(parts), sep)

\* JavaScript values that may be null/undefined: a string or nothing
Null == [isNull |-> TRUE, val |-> <<>>]
Some(s) == [isNull |-> FALSE, val |-> s]
\* truthiness of (string | null | undefined)
Truthy(r) == ~r.isNull /\ r.val # <<>>
\* parts[1] of the result of split: undefined when there is no second part
Second(parts) == IF Len(parts) >= 2 THEN Some(parts[2]) ELSE Null
\* (x ?? "")
OrEmpty(r) == IF r.isNull THEN <<>> ELSE r.val

----------------------------------------------------------------------------
(* Literal text of the source and of the registries fed to it *)

S_InstallPrefix == <<"[", "I", "n", "s", "t", "a", "l", "l">>
S_ProfilePrefix == <<"[", "P", "r", "o", "f", "i", "l", "e">>
S_Bracket == <<"[">>
S_DefaultEq == <<"D", "e", "f", "a", "u", "l", "t", "=">>
S_PathEq == <<"P", "a", "t", "h", "=">>
S_DefaultEq1 == <<"D", "e", "f", "a", "u", "l", "t", "=", "1">>

L_InstallHeader == <<"[", "I", "n", "s", "t", "a", "l", "l", "1", "]">>
L_ProfileHeader == <<"[", "P", "r", "o", "f", "i", "l", "e", "0", "]">>
L_GeneralHeader == <<"[", "G", "e", "n", "e", "r", "a", "l", "]">>
L_DefaultP == <<"D", "e", "f", "a", "u", "l", "t", "=", "p">>
L_DefaultEmpty == <<"D", "e", "f", "a", "u", "l", "t", "=">>
L_Default1 == <<"D", "e", "f", "a", "u", "l", "t", "=", "1">>
L_Default10 == <<"D", "e", "f", "a", "u", "l", "t", "=", "1", "0">>
L_DefaultPEqQ == <<"D", "e", "f", "a", "u", "l", "t", "=", "p", "=", "q">>
L_PathA == <<"P", "a", "t", "h", "=", "a">>
L_PathEmpty == <<"P", "a", "t", "h", "=">>
L_PathBSpaced == <<" ", "P", "a", "t", "h", "=", " ", "b", "\r">>
L_PathAEqB == <<"P", "a", "t", "h", "=", "a", "=", "b">>

\* the lines a registry text is built from
IniLines ==
    { L_InstallHeader, L_ProfileHeader, L_GeneralHeader,
      L_DefaultP, L_DefaultEmpty, L_Default1, L_Default10, L_DefaultPEqQ,
      L_PathA, L_PathEmpty, L_PathBSpaced, L_PathAEqB }

RECURSIVE SeqsUpTo(_, _)
SeqsUpTo(S, n) ==
    IF n = 0 THEN {<<>>}
    ELSE LET shorter == SeqsUpTo(S, n - 1)
         IN  shorter \cup {Append(q, x) : q \in {r \in shorter : Len(r) = n - 1}, x \in S}

\* registry texts: up to MaxLines lines joined by newlines (the empty text included)
IniTexts == {Join(ls, "\n") : ls \in SeqsUpTo(IniLines, MaxLines)}

----------------------------------------------------------------------------
(* profile-discovery.ts: parseDefaultProfilePathFromProfilesIni *)

\* first loop (lines 143-162): returns from the function at the first
\* Default= key of an install section, whatever its value
RECURSIVE DiscPass1(_, _, _)
DiscPass1(lines, i, inInstallSection) ==
    IF i > Len(lines) THEN [returned |-> FALSE, value |-> Null]
    ELSE LET trimmedLine == Trim(lines[i])
         IN  IF StartsWith(trimmedLine, S_InstallPrefix) THEN DiscPass1(lines, i + 1, TRUE)
             ELSE IF StartsWith(trimmedLine, S_Bracket) THEN DiscPass1(lines, i + 1, FALSE)
             ELSE IF ~inInstallSection THEN DiscPass1(lines, i + 1, inInstallSection)
             ELSE IF ~StartsWith(trimmedLine, S_DefaultEq) THEN DiscPass1(lines, i + 1, inInstallSection)
             ELSE LET defaultValue == Second(Split(trimmedLine, "="))
                      profilePath == Trim(OrEmpty(defaultValue))
                  IN  [returned |-> TRUE,
                       value |-> IF profilePath # <<>> THEN Some(profilePath) ELSE Null]

\* second loop (lines 163-179)
RECURSIVE DiscPass2(_, _, _)
DiscPass2(lines, i, currentProfilePath) ==
    IF i > Len(lines) THEN Null
    ELSE LET trimmedLine == Trim(lines[i])
         IN  IF StartsWith(trimmedLine, S_ProfilePrefix) THEN DiscPass2(lines, i + 1, Null)
             ELSE IF StartsWith(trimmedLine, S_PathEq)
                  THEN DiscPass2(lines, i + 1,
                                 Some(Trim(OrEmpty(Second(Split(trimmedLine, "="))))))
             ELSE IF StartsWith(trimmedLine, S_DefaultEq1) /\ Truthy(currentProfilePath)
                  THEN currentProfilePath
             ELSE DiscPass2(lines, i + 1, currentProfilePath)

parseDefaultProfilePathFromProfilesIni(profilesIniText) ==
    LET lines == Split(profilesIniText, "\n")
        first == DiscPass1(lines, 1, FALSE)
    IN  IF first.returned THEN first.value ELSE DiscPass2(lines, 1, Null)

----------------------------------------------------------------------------
(* tools/xpi.ts: the parser inlined in getFirefoxExtensionsDirectory *)

\* first loop (lines 75-90): profileName after the loop
RECURSIVE XpiPass1(_, _, _)
XpiPass1(lines, i, inInstallSection) ==
    IF i > Len(lines) THEN Null
    ELSE LET trimmedLine == Trim(lines[i])
         IN  IF StartsWith(trimmedLine, S_InstallPrefix) THEN XpiPass1(lines, i + 1, TRUE)
             ELSE IF StartsWith(trimmedLine, S_Bracket) THEN XpiPass1(lines, i + 1, FALSE)
             ELSE IF inInstallSection /\ StartsWith(trimmedLine, S_DefaultEq)
                  THEN LET defaultValue == Second(Split(trimmedLine, "="))
                       IN  IF ~defaultValue.isNull THEN Some(Trim(defaultValue.val))
                           ELSE XpiPass1(lines, i + 1, inInstallSection)
             ELSE XpiPass1(lines, i + 1, inInstallSection)

\* second loop (lines 94-108): profileName after the loop, given its value before
RECURSIVE XpiPass2(_, _, _, _)
XpiPass2(lines, i, currentProfilePath, profileName) ==
    IF i > Len(lines) THEN profileName
    ELSE LET trimmedLine == Trim(lines[i])
         IN  IF StartsWith(trimmedLine, S_ProfilePrefix)
                  THEN XpiPass2(lines, i + 1, Null, profileName)
             ELSE IF StartsWith(trimmedLine, S_PathEq)
                  THEN LET pathValue == Second(Split(trimmedLine, "="))
                       IN  XpiPass2(lines, i + 1,
                                    IF ~pathValue.isNull THEN Some(Trim(pathValue.val))
                                    ELSE currentProfilePath,
                                    profileName)
             ELSE IF StartsWith(trimmedLine, S_DefaultEq1) /\ Truthy(currentProfilePath)
                  THEN currentProfilePath
             ELSE XpiPass2(lines, i + 1, currentProfilePath, profileName)

\* lines 72-109: the value of profileName when line 110 is reached
xpiProfileName(profilesContent) ==
    LET lines == Split(profilesContent, "\n")
        first == XpiPass1(lines, 1, FALSE)
    IN  IF ~Truthy(first) THEN XpiPass2(lines, 1, Null, first) ELSE first

----------------------------------------------------------------------------
(* The disk: paths are sequences of components below the Firefox base      *)
(* directory (~/.mozilla/firefox on Linux), which always exists            *)

N_extensions == <<"e", "x", "t", "e", "n", "s", "i", "o", "n", "s">>
N_Profiles == <<"P", "r", "o", "f", "i", "l", "e", "s">>
N_default == <<".", "d", "e", "f", "a", "u", "l", "t">>
N_defaultRelease == <<".", "d", "e", "f", "a", "u", "l", "t", "-", "r", "e", "l", "e", "a", "s", "e">>

BaseDir == <<>>

NonEmpty(c) == c # <<>>
\* path.resolve(base, rel) for a relative rel: its non-empty components appended
Resolve(base, rel) == base \o SelectSeq(Split(rel, "/"), NonEmpty)

\* fs.existsSync
ExistsSync(dirs, files, p) == p \in dirs \/ p \in files

Prefixes(p) == {SubSeq(p, 1, n) : n \in 1..Len(p)}

\* fs.mkdirSync(p, { recursive: true }): throws when a component is a regular file
MkdirRecursive(dirs, files, p) ==
    IF Prefixes(p) \cap files # {} THEN [threw |-> TRUE, dirs |-> dirs]
    ELSE [threw |-> FALSE, dirs |-> dirs \cup Prefixes(p)]

Ok(p) == [ok |-> TRUE, path |-> p, err |-> "none"]
Err(e) == [ok |-> FALSE, path |-> <<>>, err |-> e]

\* profile-discovery.ts: guessDefaultProfileDirectoryFromProfilesFolder
guessDefaultProfileDirectoryFromProfilesFolder(dirs, files) ==
    LET profilesDir == Resolve(BaseDir, N_Profiles)
        release == profilesDir \o <<N_defaultRelease>>
        plain == profilesDir \o <<N_default>>
    IN  IF ~ExistsSync(dirs, files, profilesDir) THEN Err("NotFound:ProfilesDirectory")
        ELSE IF ExistsSync(dirs, files, release) THEN Ok(release)
        ELSE IF ExistsSync(dirs, files, plain) THEN Ok(plain)
        ELSE Err("NotFound:NoDefaultProfile")

\* profile-discovery.ts: getDefaultFirefoxProfileDirectoryPath
getDefaultFirefoxProfileDirectoryPath(ini, dirs, files) ==
    IF ~ini.exists THEN Err("NotFound:ProfilesIni")
    ELSE IF Trim(ini.text) = <<>> THEN Err("NotFound:ProfilesIniEmpty")
    ELSE LET defaultProfileRelativePath == parseDefaultProfilePathFromProfilesIni(ini.text)
         IN  IF Truthy(defaultProfileRelativePath)
             THEN Ok(Resolve(BaseDir, defaultProfileRelativePath.val))
             ELSE guessDefaultProfileDirectoryFromProfilesFolder(dirs, files)

\* profile-discovery.ts: getFirefoxExtensionsDirectory; [ret, dirs]
discGetFirefoxExtensionsDirectory(ini, dirs, files) ==
    LET profile == getDefaultFirefoxProfileDirectoryPath(ini, dirs, files)
        xpiDirectory == profile.path \o <<N_extensions>>
        made == MkdirRecursive(dirs, files, xpiDirectory)
    IN  IF ~profile.ok THEN [ret |-> profile, dirs |-> dirs]
        ELSE IF ~ExistsSync(dirs, files, xpiDirectory)
             THEN IF made.threw THEN [ret |-> Err("Filesystem:Mkdir"), dirs |-> dirs]
                  ELSE [ret |-> Ok(xpiDirectory), dirs |-> made.dirs]
        ELSE [ret |-> Ok(xpiDirectory), dirs |-> dirs]

\* tools/xpi.ts: getFirefoxExtensionsDirectory; [ret, dirs]
xpiGetFirefoxExtensionsDirectory(ini, dirs, files) ==
    LET profileName == xpiProfileName(ini.text)
        profileDirectory == Resolve(BaseDir, profileName.val)
        xpiDirectory == profileDirectory \o <<N_extensions>>
        made == MkdirRecursive(dirs, files, xpiDirectory)
    IN  IF ~ini.exists THEN [ret |-> Err("NotFound:ProfilesIni"), dirs |-> dirs]
        ELSE IF ini.text = <<>> THEN [ret |-> Err("NotFound:ProfilesIniEmpty"), dirs |-> dirs]
        ELSE IF ~Truthy(profileName) THEN [ret |-> Err("NotFound:NoDefaultProfile"), dirs |-> dirs]
        ELSE IF ~ExistsSync(dirs, files, profileDirectory)
             THEN [ret |-> Err("NotFound:ProfileDirectory"), dirs |-> dirs]
        ELSE IF ~ExistsSync(dirs, files, xpiDirectory)
             THEN IF made.threw THEN [ret |-> Err("Filesystem:Mkdir"), dirs |-> dirs]
                  ELSE [ret |-> Ok(xpiDirectory), dirs |-> made.dirs]
        ELSE IF xpiDirectory \notin dirs
             THEN [ret |-> Err("Filesystem:NotADirectory"), dirs |-> dirs]
        ELSE [ret |-> Ok(xpiDirectory), dirs |-> dirs]

----------------------------------------------------------------------------
(* The extension registries of a profile (tools/toJson.ts)                 *)

\* a JSON member that is missing reads as undefined
Undefined == "<undefined>"
FIREFOX_PROFILE_LOCATION_PROFILE == "app-profile"
FIREFOX_ADDON_TYPE_EXTENSION == "extension"
FIREFOX_EXTENSIONS_JSON_FILENAME == "extensions.json"
FIREFOX_ADDONS_JSON_FILENAME == "addons.json"

NoFile == [exists |-> FALSE, valid |-> FALSE, hasAddons |-> FALSE, addons |-> <<>>]
BadJsonFile == [exists |-> TRUE, valid |-> FALSE, hasAddons |-> FALSE, addons |-> <<>>]
JsonFile(hasAddons, addons) ==
    [exists |-> TRUE, valid |-> TRUE, hasAddons |-> hasAddons, addons |-> addons]

NoUrls == [ok |-> FALSE, urls |-> <<>>, err |-> "none"]
Urls(us) == [ok |-> TRUE, urls |-> us, err |-> "none"]
Threw(e) == [ok |-> FALSE, urls |-> <<>>, err |-> e]

\* !x for a (string | undefined) member
Falsy(x) == x = Undefined \/ x = ""

\* uniqStable: the loop from item i on, with the set seen and the result so far
RECURSIVE UniqLoop(_, _, _, _)
UniqLoop(items, i, seen, result) ==
    IF i > Len(items) THEN result
    ELSE IF items[i] \in seen THEN UniqLoop(items, i + 1, seen, result)
    ELSE UniqLoop(items, i + 1, seen \cup {items[i]}, Append(result, items[i]))

Reverse(q) == [i \in 1..Len(q) |-> q[Len(q) + 1 - i]]

\* uniqStable keeping the last occurrence of each item instead of the first
uniqStableKeepLast(items) == Reverse(UniqLoop(Reverse(items), 1, {}, <<>>))

uniqStable(items) == UniqLoop(items, 1, {}, <<>>)

\* (json.addons ?? [])
AddonsOf(json) == IF json.hasAddons THEN json.addons ELSE <<>>

\* ModernLoop with "active" tested for truthiness instead of === true
RECURSIVE ModernLoopTruthyActive(_, _, _)
ModernLoopTruthyActive(addons, i, urls) ==
    IF i > Len(addons) THEN urls
    ELSE LET addon == addons[i]
         IN  IF /\ addon.type = FIREFOX_ADDON_TYPE_EXTENSION
                /\ addon.location = FIREFOX_PROFILE_LOCATION_PROFILE
                /\ addon.active \in {"true", "1"}
                /\ ~Falsy(addon.sourceURI)
             THEN ModernLoopTruthyActive(addons, i + 1, Append(urls, addon.sourceURI))
             ELSE ModernLoopTruthyActive(addons, i + 1, urls)

\* extractUrlsFromExtensionsJson: the loop from addon i on, with urls so far
RECURSIVE ModernLoop(_, _, _)
ModernLoop(addons, i, urls) ==
    IF i > Len(addons) THEN urls
    ELSE LET addon == addons[i]
             isExtension == addon.type = FIREFOX_ADDON_TYPE_EXTENSION
             isFromProfile == addon.location = FIREFOX_PROFILE_LOCATION_PROFILE
             isActive == addon.active = "true"
             sourceUrl == addon.sourceURI
         IN  IF ~isExtension THEN ModernLoop(addons, i + 1, urls)
             ELSE IF ~isFromProfile THEN ModernLoop(addons, i + 1, urls)
             ELSE IF ~isActive THEN ModernLoop(addons, i + 1, urls)
             ELSE IF Falsy(sourceUrl) THEN ModernLoop(addons, i + 1, urls)
             ELSE ModernLoop(addons, i + 1, Append(urls, sourceUrl))

extractUrlsFromExtensionsJson(extensionsJsonValue) ==
    uniqStable(ModernLoop(AddonsOf(extensionsJsonValue), 1, <<>>))

\* extractUrlsFromAddonsJson: the loop from addon i on, with urls so far
RECURSIVE LegacyLoop(_, _, _)
LegacyLoop(addons, i, urls) ==
    IF i > Len(addons) THEN urls
    ELSE IF Falsy(addons[i].sourceURI) THEN LegacyLoop(addons, i + 1, urls)
    ELSE LegacyLoop(addons, i + 1, Append(urls, addons[i].sourceURI))

extractUrlsFromAddonsJson(addonsJsonValue) ==
    uniqStable(LegacyLoop(AddonsOf(addonsJsonValue), 1, <<>>))

\* getInstalledExtensionSourceUrls falling back to addons.json when
\* extensions.json does not parse
getInstalledExtensionSourceUrlsFallBackOnParseError(ext, add) ==
    IF ext.exists /\ ext.valid
    THEN [read |-> {FIREFOX_EXTENSIONS_JSON_FILENAME},
          ret |-> Urls(extractUrlsFromExtensionsJson(ext))]
    ELSE IF add.exists
    THEN [read |-> (IF ext.exists THEN {FIREFOX_EXTENSIONS_JSON_FILENAME} ELSE {})
                   \cup {FIREFOX_ADDONS_JSON_FILENAME},
          ret |-> IF ~add.valid THEN Threw("Parse:addons.json")
                  ELSE Urls(extractUrlsFromAddonsJson(add))]
    ELSE [read |-> {}, ret |-> Threw("NotFound:Registry")]

\* getInstalledExtensionSourceUrls: [ret, read]
getInstalledExtensionSourceUrls(ext, add) ==
    IF ext.exists
    THEN [read |-> {FIREFOX_EXTENSIONS_JSON_FILENAME},
          ret |-> IF ~ext.valid THEN Threw("Parse:extensions.json")
                  ELSE Urls(extractUrlsFromExtensionsJson(ext))]
    ELSE IF add.exists
    THEN [read |-> {FIREFOX_ADDONS_JSON_FILENAME},
          ret |-> IF ~add.valid THEN Threw("Parse:addons.json")
                  ELSE Urls(extractUrlsFromAddonsJson(add))]
    ELSE [read |-> {}, ret |-> Threw("NotFound:Registry")]

----------------------------------------------------------------------------
(* The archive manifest (tools/xpi.ts: getExtensionId)                     *)

\* a manifest member: absent, a scalar, or an object with (or without) a
\* gecko member, itself absent, a scalar, or an object with (or without) an id
NoSlot == [kind |-> "absent", gecko |-> "absent", id |-> Undefined]
NoManifest == [unzips |-> FALSE, parses |-> FALSE,
               applications |-> NoSlot, browser_specific_settings |-> NoSlot]
NoId == [done |-> FALSE, ok |-> FALSE, id |-> Undefined]

\* slot?.gecko?.id
GeckoId(slot) ==
    IF slot.kind = "object" /\ slot.gecko = "object" THEN slot.id ELSE Undefined

\* getExtensionId trying browser_specific_settings before applications
getExtensionIdModernFirst(m) ==
    IF ~m.unzips \/ ~m.parses THEN [ok |-> FALSE, id |-> Undefined]
    ELSE IF ~Falsy(GeckoId(m.browser_specific_settings))
         THEN [ok |-> TRUE, id |-> GeckoId(m.browser_specific_settings)]
    ELSE IF ~Falsy(GeckoId(m.applications))
         THEN [ok |-> TRUE, id |-> GeckoId(m.applications)]
    ELSE [ok |-> FALSE, id |-> Undefined]

\* getExtensionId: [ok, id]
getExtensionId(m) ==
    IF ~m.unzips THEN [ok |-> FALSE, id |-> Undefined]
    ELSE IF ~m.parses THEN [ok |-> FALSE, id |-> Undefined]
    ELSE IF ~Falsy(GeckoId(m.applications))
         THEN [ok |-> TRUE, id |-> GeckoId(m.applications)]
    ELSE IF ~Falsy(GeckoId(m.browser_specific_settings))
         THEN [ok |-> TRUE, id |-> GeckoId(m.browser_specific_settings)]
    ELSE [ok |-> FALSE, id |-> Undefined]

----------------------------------------------------------------------------
(* The install pipeline (tools/xpi.ts)                                     *)

IdA == "legacy@example.com"
IdB == "ext@example.com"
UrlA == "https://addons.example/a.xpi"
UrlB == "https://addons.example/b.xpi"

NoUrlsFile == [exists |-> FALSE, valid |-> FALSE, hasUrls |-> FALSE, urls |-> <<>>]

\* an archive: what the archive reader signals for it, and its manifest
NoArchive == [reader |-> "none", manifest |-> NoManifest]
LegacyManifest(id) ==
    [unzips |-> TRUE, parses |-> TRUE,
     applications |-> [kind |-> "object", gecko |-> "object", id |-> id],
     browser_specific_settings |-> NoSlot]
ModernManifest(id) ==
    [unzips |-> TRUE, parses |-> TRUE,
     applications |-> NoSlot,
     browser_specific_settings |-> [kind |-> "object", gecko |-> "object", id |-> id]]
AnonymousManifest ==
    [unzips |-> TRUE, parses |-> TRUE,
     applications |-> NoSlot, browser_specific_settings |-> NoSlot]
Archives ==
    { [reader |-> "error", manifest |-> LegacyManifest(IdA)],
      [reader |-> "end", manifest |-> LegacyManifest(IdA)],
      [reader |-> "end", manifest |-> ModernManifest(IdB)],
      [reader |-> "end", manifest |-> AnonymousManifest] }

\* a directory's files: name -> archive
NoFiles == [n \in {} |-> NoArchive]
Put(f, n, a) == [x \in DOMAIN f \cup {n} |-> IF x = n THEN a ELSE f[x]]
Remove(f, n) == [x \in DOMAIN f \ {n} |-> f[x]]

\* the names Date.now() and Math.random() can give a staged file
TmpNames == {"xpi-1-a.xpi", "xpi-2-b.xpi"}

\* downloadXPI: what fetch can do for a URL
DownloadOutcomes ==
    {[ok |-> FALSE, err |-> "Download:Network", archive |-> NoArchive],
     [ok |-> FALSE, err |-> "Download:Status", archive |-> NoArchive]}
    \cup {[ok |-> TRUE, err |-> "none", archive |-> a] : a \in Archives}

\* processXPI rejecting whatever the reader signals
processXPIRejecting(archive) == "Processing:Reader"

\* processXPI resolving on the reader's error signal as well
processXPIIgnoringError(archive) == "none"

\* processXPI: settles on the reader's terminal signal
processXPI(archive) == IF archive.reader = "end" THEN "none" ELSE "Processing:Reader"

\* the finally block of installXPIFromUrl with a rethrow of the unlink failure
FinallyResultEscalating(pendingError, unlinkFailed) ==
    IF unlinkFailed THEN "Cleanup:Unlink"
    ELSE IF pendingError = "none" THEN "ok" ELSE pendingError

\* the finally block of installXPIFromUrl (lines 193-200): the unlink failure
\* is caught, so the function settles with what the try block left
FinallyResult(pendingError, unlinkFailed) ==
    IF pendingError = "none" THEN "ok" ELSE pendingError

\* the catch around installXPIFromUrl in the batch loop, rethrowing
BatchAfterInstallRethrowing(result) == IF result = "ok" THEN "iterating" ELSE "threw"

\* the catch around installXPIFromUrl in the batch loop (lines 216-222):
\* the loop goes on
BatchAfterInstall(result) == "iterating"

----------------------------------------------------------------------------
(* Specification SpecIni: the two parsers applied to a registry text *)

Unset == [done |-> FALSE, isNull |-> TRUE, val |-> <<>>]
NoResult == [ok |-> FALSE, path |-> <<>>, err |-> "none"]
Done(r) == [done |-> TRUE, isNull |-> r.isNull, val |-> r.val]

\* the variables of the parts a specification leaves idle
ParseIdle == discOut = Unset /\ xpiOut = Unset
LocIdle == locOp = "none" /\ locRet = NoResult /\ fsBefore = [dirs |-> fsDirs, files |-> fsFiles]
DiskIdle ==
    /\ profilesIni = [exists |-> FALSE, text |-> <<>>]
    /\ fsDirs = {BaseDir}
    /\ fsFiles = {}
RegIdle ==
    /\ extensionsJson = NoFile
    /\ addonsJson = NoFile
    /\ regOp = "none"
    /\ regRet = NoUrls
    /\ regRead = {}
ManIdle == manifest = NoManifest /\ idRet = NoId
PipelineIdle ==
    /\ batchPc = "start"
    /\ urlIndex = 0
    /\ pc = "idle"
    /\ tempFilePath = "none"
    /\ buffer = NoArchive
    /\ tmpFiles = NoFiles
    /\ pending = "none"
    /\ installResult = "none"
    /\ unlinkTried = FALSE
    /\ unlinkThrew = FALSE
    /\ extFiles = NoFiles
    /\ log = <<>>
    /\ attempted = <<>>
    /\ outcomes = <<>>
    /\ exitCode = "none"
InstallIdle == urlsFile = NoUrlsFile /\ PipelineIdle
NoMap == [done |-> FALSE, ok |-> FALSE, map |-> <<>>]
NoSelection == [cancelled |-> FALSE, urls |-> <<>>]
MenuIdle == menuPc = "prompt" /\ rounds = 0 /\ lastChoice = "none" /\ selected = NoSelection
AppIdle ==
    /\ metadataMap = NoMap
    /\ MenuIdle
    /\ entryPc = "none"
    /\ runs = <<>>
    /\ variantRet = "none"

InitIni ==
    /\ profilesIni \in {[exists |-> TRUE, text |-> t] : t \in IniTexts}
    /\ fsDirs = {BaseDir}
    /\ fsFiles = {}
    /\ ParseIdle /\ LocIdle /\ RegIdle /\ ManIdle /\ InstallIdle /\ AppIdle

\* the export side parses the registry
ParseDiscovery ==
    /\ ~discOut.done
    /\ discOut' = Done(parseDefaultProfilePathFromProfilesIni(profilesIni.text))
    /\ UNCHANGED <<diskVars, xpiOut, locVars, regVars, manVars, installVars, appVars>>

\* the install side parses the registry
ParseXpi ==
    /\ ~xpiOut.done
    /\ xpiOut' = Done(xpiProfileName(profilesIni.text))
    /\ UNCHANGED <<diskVars, discOut, locVars, regVars, manVars, installVars, appVars>>

NextIni == ParseDiscovery \/ ParseXpi

vars == <<diskVars, parseVars, locVars, regVars, manVars, installVars, appVars>>

SpecIni == InitIni /\ [][NextIni]_vars

----------------------------------------------------------------------------
(* Specification SpecLocate: the locator operations on a registry and disk *)

IniTextsLoc == {Join(ls, "\n") : ls \in SeqsUpTo(IniLines, MaxLocLines)}

\* profile directories the registries above can name, and the guessed ones
ProfileDirs ==
    { <<<<"p">>>>, <<<<"a">>>>,
      <<N_Profiles, N_default>>, <<N_Profiles, N_defaultRelease>> }

\* the disks tried: nothing, a bare Profiles folder, or one profile path that
\* is a regular file, or a directory whose extensions entry is missing, a
\* directory or a regular file
Disks ==
    { [dirs |-> {BaseDir}, files |-> {}],
      [dirs |-> {BaseDir, <<N_Profiles>>}, files |-> {}] }
    \cup { [dirs |-> {BaseDir} \cup (Prefixes(d) \ {d}), files |-> {d}] : d \in ProfileDirs }
    \cup { [dirs |-> {BaseDir} \cup Prefixes(d), files |-> {}] : d \in ProfileDirs }
    \cup { [dirs |-> {BaseDir} \cup Prefixes(d \o <<N_extensions>>), files |-> {}] : d \in ProfileDirs }
    \cup { [dirs |-> {BaseDir} \cup Prefixes(d), files |-> {d \o <<N_extensions>>}] : d \in ProfileDirs }

InitLocate ==
    /\ profilesIni \in {[exists |-> TRUE, text |-> t] : t \in IniTextsLoc}
                       \cup {[exists |-> FALSE, text |-> <<>>]}
    /\ \E d \in Disks : fsDirs = d.dirs /\ fsFiles = d.files
    /\ ParseIdle /\ LocIdle /\ RegIdle /\ ManIdle /\ InstallIdle /\ AppIdle

\* the export side locates the default profile directory
DiscLocate ==
    /\ locOp = "none"
    /\ locOp' = "getDefaultFirefoxProfileDirectoryPath"
    /\ locRet' = getDefaultFirefoxProfileDirectoryPath(profilesIni, fsDirs, fsFiles)
    /\ UNCHANGED <<diskVars, parseVars, fsBefore, regVars, manVars, installVars, appVars>>

\* profile-discovery.ts resolves the extensions directory
DiscExtensionsDirectory ==
    /\ locOp = "none"
    /\ locOp' = "discGetFirefoxExtensionsDirectory"
    /\ LET r == discGetFirefoxExtensionsDirectory(profilesIni, fsDirs, fsFiles)
       IN  locRet' = r.ret /\ fsDirs' = r.dirs
    /\ UNCHANGED <<profilesIni, fsFiles, parseVars, fsBefore, regVars, manVars, installVars, appVars>>

\* tools/xpi.ts resolves the extensions directory
XpiExtensionsDirectory ==
    /\ locOp = "none"
    /\ locOp' = "xpiGetFirefoxExtensionsDirectory"
    /\ LET r == xpiGetFirefoxExtensionsDirectory(profilesIni, fsDirs, fsFiles)
       IN  locRet' = r.ret /\ fsDirs' = r.dirs
    /\ UNCHANGED <<profilesIni, fsFiles, parseVars, fsBefore, regVars, manVars, installVars, appVars>>

NextLocate == DiscLocate \/ DiscExtensionsDirectory \/ XpiExtensionsDirectory

SpecLocate == InitLocate /\ [][NextLocate]_vars

----------------------------------------------------------------------------
(* Specification SpecRegistry: reading the installed-extension URLs        *)

ModernAddons ==
    [type : {FIREFOX_ADDON_TYPE_EXTENSION, "theme"},
     location : {FIREFOX_PROFILE_LOCATION_PROFILE, "app-system-defaults"},
     active : {"true", "false", "1"},
     sourceURI : {Undefined, "", UrlA, UrlB}]
LegacyAddons == [sourceURI : {Undefined, "", UrlA, UrlB}]

RegistryFiles(records) ==
    {NoFile, BadJsonFile, JsonFile(FALSE, <<>>)}
    \cup {JsonFile(TRUE, as) : as \in SeqsUpTo(records, MaxAddons)}

\* either registry in every shape, beside a sample of the other one
InitRegistry ==
    /\ \/ /\ extensionsJson \in RegistryFiles(ModernAddons)
          /\ addonsJson \in {NoFile, BadJsonFile, JsonFile(TRUE, <<[sourceURI |-> UrlB]>>)}
       \/ /\ extensionsJson = NoFile
          /\ addonsJson \in RegistryFiles(LegacyAddons)
    /\ regOp = "none"
    /\ regRet = NoUrls
    /\ regRead = {}
    /\ DiskIdle /\ ParseIdle /\ LocIdle /\ ManIdle /\ InstallIdle /\ AppIdle

ReadInstalledUrls ==
    /\ regOp = "none"
    /\ regOp' = "getInstalledExtensionSourceUrls"
    /\ LET r == getInstalledExtensionSourceUrls(extensionsJson, addonsJson)
       IN  regRet' = r.ret /\ regRead' = r.read
    /\ UNCHANGED <<extensionsJson, addonsJson, diskVars, parseVars, locVars, manVars, installVars, appVars>>

NextRegistry == ReadInstalledUrls

SpecRegistry == InitRegistry /\ [][NextRegistry]_vars

----------------------------------------------------------------------------
(* Specification SpecManifest: identity extraction from a manifest         *)

ManifestSlots ==
    { NoSlot,
      [kind |-> "scalar", gecko |-> "absent", id |-> Undefined],
      [kind |-> "object", gecko |-> "absent", id |-> Undefined],
      [kind |-> "object", gecko |-> "scalar", id |-> Undefined] }
    \cup {[kind |-> "object", gecko |-> "object", id |-> i] : i \in {Undefined, "", IdA, IdB}}

Manifests ==
    { NoManifest,
      [unzips |-> TRUE, parses |-> FALSE,
       applications |-> NoSlot, browser_specific_settings |-> NoSlot] }
    \cup {[unzips |-> TRUE, parses |-> TRUE,
           applications |-> a, browser_specific_settings |-> b] :
              a \in ManifestSlots, b \in ManifestSlots}

InitManifest ==
    /\ manifest \in Manifests
    /\ idRet = NoId
    /\ DiskIdle /\ ParseIdle /\ LocIdle /\ RegIdle /\ InstallIdle /\ AppIdle

ExtractIdentity ==
    /\ ~idRet.done
    /\ LET r == getExtensionId(manifest)
       IN  idRet' = [done |-> TRUE, ok |-> r.ok, id |-> r.id]
    /\ UNCHANGED <<manifest, diskVars, parseVars, locVars, regVars, installVars, appVars>>

NextManifest == ExtractIdentity

SpecManifest == InitManifest /\ [][NextManifest]_vars

----------------------------------------------------------------------------
(* Specification Spec: the batch install, one step of one install at a time *)

GoodIni == [exists |-> TRUE, text |-> Join(<<L_InstallHeader, L_DefaultP>>, "\n")]
ProfileP == <<<<"p">>>>

\* the registry and disk an install runs against
InstallDisks ==
    { [ini |-> [exists |-> FALSE, text |-> <<>>], dirs |-> {BaseDir}, files |-> {}],
      [ini |-> GoodIni, dirs |-> {BaseDir}, files |-> {}],
      [ini |-> GoodIni, dirs |-> {BaseDir, ProfileP}, files |-> {}],
      [ini |-> GoodIni, dirs |-> {BaseDir, ProfileP, ProfileP \o <<N_extensions>>}, files |-> {}],
      [ini |-> GoodIni, dirs |-> {BaseDir, ProfileP}, files |-> {ProfileP \o <<N_extensions>>}] }

UrlsFiles ==
    { NoUrlsFile,
      [exists |-> TRUE, valid |-> FALSE, hasUrls |-> FALSE, urls |-> <<>>],
      [exists |-> TRUE, valid |-> TRUE, hasUrls |-> FALSE, urls |-> <<>>] }
    \cup {[exists |-> TRUE, valid |-> TRUE, hasUrls |-> TRUE, urls |-> us] :
              us \in SeqsUpTo({UrlA, UrlB}, MaxUrls)}

InitBatch ==
    /\ \E d \in InstallDisks :
          profilesIni = d.ini /\ fsDirs = d.dirs /\ fsFiles = d.files
    /\ urlsFile \in UrlsFiles
    /\ batchPc = "start"
    /\ urlIndex = 0
    /\ pc = "idle"
    /\ tempFilePath = "none"
    /\ buffer = NoArchive
    /\ tmpFiles = NoFiles
    /\ pending = "none"
    /\ installResult = "none"
    /\ unlinkTried = FALSE
    /\ unlinkThrew = FALSE
    /\ extFiles = NoFiles
    /\ log = <<>>
    /\ attempted = <<>>
    /\ outcomes = <<>>
    /\ exitCode = "none"
    /\ ParseIdle /\ LocIdle /\ RegIdle /\ ManIdle

Init == InitBatch /\ AppIdle

others == <<parseVars, locVars, regVars, manVars, appVars>>

\* installXPIFromUrls, lines 208-214: urls.json is looked up and parsed
BatchStart ==
    /\ batchPc = "start"
    /\ IF ~urlsFile.exists
       THEN /\ batchPc' = "exited"
            /\ log' = Append(log, [level |-> "error", url |-> "none", msg |-> "urls.json file not found"])
       ELSE IF ~urlsFile.valid \/ ~urlsFile.hasUrls
       THEN /\ batchPc' = "threw"
            /\ log' = Append(log, [level |-> "error", url |-> "none", msg |-> "Error processing XPI file"])
       ELSE /\ batchPc' = "iterating"
            /\ log' = log
    /\ urlIndex' = 1
    /\ exitCode' = IF ~urlsFile.exists THEN "1" ELSE exitCode
    /\ UNCHANGED <<urlsFile, pc, tempFilePath, buffer, tmpFiles, pending, installResult,
                   unlinkTried, unlinkThrew, extFiles, attempted, outcomes, diskVars, others>>

\* the for loop has run out of URLs
BatchReturn ==
    /\ batchPc = "iterating" /\ pc = "idle" /\ urlIndex > Len(urlsFile.urls)
    /\ batchPc' = "returned"
    /\ UNCHANGED <<urlsFile, urlIndex, pc, tempFilePath, buffer, tmpFiles, pending, installResult,
                   unlinkTried, unlinkThrew, extFiles, log, attempted, outcomes, diskVars, exitCode, others>>

\* installXPIFromUrl is called with urls[urlIndex]; line 174 names the staged file
InstallBegin ==
    /\ batchPc = "iterating" /\ pc = "idle" /\ urlIndex <= Len(urlsFile.urls)
    /\ \E name \in TmpNames : tempFilePath' = name
    /\ pc' = "download"
    /\ attempted' = Append(attempted, urlsFile.urls[urlIndex])
    /\ buffer' = NoArchive
    /\ pending' = "none"
    /\ installResult' = "none"
    /\ unlinkTried' = FALSE
    /\ unlinkThrew' = FALSE
    /\ UNCHANGED <<urlsFile, batchPc, urlIndex, tmpFiles, extFiles, log, outcomes, diskVars, exitCode, others>>

\* a step of the try block threw: control goes to the finally block
Fail(e) == pending' = e /\ pc' = "cleanup"

\* line 177
Download ==
    /\ pc = "download"
    /\ \E o \in DownloadOutcomes :
          IF o.ok THEN buffer' = o.archive /\ pc' = "stage" /\ pending' = pending
          ELSE buffer' = buffer /\ Fail(o.err)
    /\ UNCHANGED <<urlsFile, batchPc, urlIndex, tempFilePath, tmpFiles, installResult, unlinkTried,
                   unlinkThrew, extFiles, log, attempted, outcomes, diskVars, exitCode, others>>

\* line 178: Bun.write of the staged file, which the disk may refuse
Stage ==
    /\ pc = "stage"
    /\ \/ /\ tmpFiles' = Put(tmpFiles, tempFilePath, buffer)
          /\ pc' = "process" /\ pending' = pending
       \/ /\ tmpFiles' = tmpFiles
          /\ Fail("Stage:Write")
    /\ UNCHANGED <<urlsFile, batchPc, urlIndex, tempFilePath, buffer, installResult, unlinkTried,
                   unlinkThrew, extFiles, log, attempted, outcomes, diskVars, exitCode, others>>

\* line 181
Process ==
    /\ pc = "process"
    /\ LET e == processXPI(tmpFiles[tempFilePath])
       IN  IF e = "none" THEN pc' = "resolve" /\ pending' = pending ELSE Fail(e)
    /\ UNCHANGED <<urlsFile, batchPc, urlIndex, tempFilePath, buffer, tmpFiles, installResult,
                   unlinkTried, unlinkThrew, extFiles, log, attempted, outcomes, diskVars, exitCode, others>>

\* line 184
ResolveDirectory ==
    /\ pc = "resolve"
    /\ LET r == xpiGetFirefoxExtensionsDirectory(profilesIni, fsDirs, fsFiles)
       IN  /\ fsDirs' = r.dirs
           /\ IF r.ret.ok THEN pc' = "identity" /\ pending' = pending ELSE Fail(r.ret.err)
    /\ UNCHANGED <<urlsFile, batchPc, urlIndex, tempFilePath, buffer, tmpFiles, installResult,
                   unlinkTried, unlinkThrew, extFiles, log, attempted, outcomes,
                   profilesIni, fsFiles, exitCode, others>>

\* line 186
Identity ==
    /\ pc = "identity"
    /\ IF getExtensionId(tmpFiles[tempFilePath].manifest).ok
       THEN pc' = "commit" /\ pending' = pending
       ELSE Fail("Parse:Identity")
    /\ UNCHANGED <<urlsFile, batchPc, urlIndex, tempFilePath, buffer, tmpFiles, installResult,
                   unlinkTried, unlinkThrew, extFiles, log, attempted, outcomes, diskVars, exitCode, others>>

\* lines 189-191: copyFileSync to <identity>.xpi, which the disk may refuse
Commit ==
    /\ pc = "commit"
    /\ \/ /\ extFiles' = Put(extFiles, getExtensionId(tmpFiles[tempFilePath].manifest).id,
                             tmpFiles[tempFilePath])
          /\ pc' = "cleanup" /\ pending' = pending
       \/ /\ extFiles' = extFiles
          /\ Fail("Filesystem:Copy")
    /\ UNCHANGED <<urlsFile, batchPc, urlIndex, tempFilePath, buffer, tmpFiles, installResult,
                   unlinkTried, unlinkThrew, log, attempted, outcomes, diskVars, exitCode, others>>

\* lines 193-200: unlink of the staged file, which may throw; a throw is
\* logged as a warning; then the function settles
Cleanup ==
    /\ pc = "cleanup"
    /\ unlinkTried' = TRUE
    /\ \E threw \in BOOLEAN :
          /\ unlinkThrew' = threw
          /\ tmpFiles' = IF threw THEN tmpFiles ELSE Remove(tmpFiles, tempFilePath)
          /\ log' = IF threw
                    THEN Append(log, [level |-> "warn", url |-> urlsFile.urls[urlIndex],
                                      msg |-> "Failed to delete temporary file"])
                    ELSE log
          /\ installResult' = FinallyResult(pending, threw)
    /\ pc' = "settled"
    /\ UNCHANGED <<urlsFile, batchPc, urlIndex, tempFilePath, buffer, pending, extFiles,
                   attempted, outcomes, diskVars, exitCode, others>>

\* installXPIFromUrls, lines 216-222: the call settled; a throw is caught and
\* logged and the loop moves on
BatchAfter ==
    /\ batchPc = "iterating" /\ pc = "settled"
    /\ outcomes' = Append(outcomes, installResult)
    /\ log' = IF installResult = "ok" THEN log
              ELSE Append(log, [level |-> "error", url |-> urlsFile.urls[urlIndex], msg |-> installResult])
    /\ batchPc' = BatchAfterInstall(installResult)
    /\ urlIndex' = urlIndex + 1
    /\ pc' = "idle"
    /\ UNCHANGED <<urlsFile, tempFilePath, buffer, tmpFiles, pending, installResult,
                   unlinkTried, unlinkThrew, extFiles, attempted, diskVars, exitCode, others>>

Next ==
    \/ BatchStart
    \/ BatchReturn
    \/ InstallBegin
    \/ Download
    \/ Stage
    \/ Process
    \/ ResolveDirectory
    \/ Identity
    \/ Commit
    \/ Cleanup
    \/ BatchAfter

Spec == Init /\ [][Next]_vars

----------------------------------------------------------------------------
(* What a registry text says, read as an INI document: sections run from   *)
(* one header line to the next, a key's value is all the text after its    *)
(* first "="                                                               *)

IniLinesOf(text) == Split(text, "\n")
IsHeaderLine(l) == StartsWith(Trim(l), S_Bracket)
IsKeyLine(l, key) == ~IsHeaderLine(l) /\ StartsWith(Trim(l), key)
KeyValue(l) ==
    LET t == Trim(l)
        eq == CHOOSE i \in 1..Len(t) : t[i] = "=" /\ \A j \in 1..(i - 1) : t[j] # "="
    IN  Trim(SubSeq(t, eq + 1, Len(t)))
\* the header line of the section that line i lies in; 0 before any header
HeaderOf(lines, i) ==
    LET hs == {j \in 1..(i - 1) : IsHeaderLine(lines[j])}
    IN  IF hs = {} THEN 0 ELSE CHOOSE j \in hs : \A k \in hs : k <= j
SectionLines(lines, h) == {i \in (h + 1)..Len(lines) : HeaderOf(lines, i) = h}
InstallHeaders(lines) ==
    {h \in 1..Len(lines) : StartsWith(Trim(lines[h]), S_InstallPrefix)}
ProfileHeaders(lines) ==
    {h \in 1..Len(lines) : StartsWith(Trim(lines[h]), S_ProfilePrefix)}
\* the Default= keys of install sections
InstallDefaultKeys(lines) ==
    {i \in 1..Len(lines) : /\ IsKeyLine(lines[i], S_DefaultEq)
                           /\ HeaderOf(lines, i) \in InstallHeaders(lines)}
\* the profile sections marked Default=1
MarkedProfiles(lines) ==
    {h \in ProfileHeaders(lines) :
        \E i \in SectionLines(lines, h) :
            IsKeyLine(lines[i], S_DefaultEq) /\ KeyValue(lines[i]) = <<"1">>}
PathValues(lines, h) ==
    {KeyValue(lines[i]) : i \in {j \in SectionLines(lines, h) : IsKeyLine(lines[j], S_PathEq)}}
Least(S) == CHOOSE i \in S : \A j \in S : i <= j

ParserOutputs == {o \in {discOut, xpiOut} : o.done}

\* C4: when an install section has a Default= key, each parser yields the
\* value of the first such key, whatever the profile sections say (a parser
\* that yields nothing is read as yielding the empty value).
C4_InstallDefaultWins ==
    LET lines == IniLinesOf(profilesIni.text)
        keys == InstallDefaultKeys(lines)
    IN  keys # {} =>
            \A o \in ParserOutputs : OrEmpty(o) = KeyValue(lines[Least(keys)])

\* C5: when no install section has a Default= key, each parser yields the
\* Path= value of the first [Profile...] section marked Default=1.
C5_FirstMarkedProfilePath ==
    LET lines == IniLinesOf(profilesIni.text)
        marked == MarkedProfiles(lines)
    IN  (InstallDefaultKeys(lines) = {} /\ marked # {}
         /\ PathValues(lines, Least(marked)) # {}) =>
            \A o \in ParserOutputs : OrEmpty(o) \in PathValues(lines, Least(marked))

\* C6: a non-empty registry with neither an install-section Default= key nor
\* a profile section holding a Path= and a Default=1 key makes every locator
\* operation fail, whatever is on disk.
C6_NeitherPatternFails ==
    LET lines == IniLinesOf(profilesIni.text)
    IN  (/\ locOp # "none"
         /\ profilesIni.exists
         /\ profilesIni.text # <<>>
         /\ InstallDefaultKeys(lines) = {}
         /\ \A h \in MarkedProfiles(lines) : PathValues(lines, h) = {})
        => ~locRet.ok

\* the profile directory a locator result stands for
ProfileDirOf(op, path) ==
    IF op = "getDefaultFirefoxProfileDirectoryPath" THEN path
    ELSE SubSeq(path, 1, Len(path) - 1)

\* C7: locating fails when the registry file is absent or empty, and returns
\* a path only when the resolved profile directory exists on disk.
C7_LocateFailsWithoutProfileDir ==
    locOp # "none" =>
        /\ ~profilesIni.exists => ~locRet.ok
        /\ profilesIni.text = <<>> => ~locRet.ok
        /\ locRet.ok => ExistsSync(fsBefore.dirs, fsBefore.files,
                                   ProfileDirOf(locOp, locRet.path))

\* C8: a successful resolution of the extensions directory returns
\* <profile>/extensions, which is then a directory; it fails when a regular
\* file occupies that path.
C8_ExtensionsDirIsDirectory ==
    (locOp \in {"discGetFirefoxExtensionsDirectory", "xpiGetFirefoxExtensionsDirectory"}
     /\ locRet.ok) =>
        /\ Len(locRet.path) >= 1
        /\ locRet.path[Len(locRet.path)] = N_extensions
        /\ locRet.path \in fsDirs
        /\ locRet.path \notin fsBefore.files

\* the identifiers a manifest declares, by path
LegacyIdOf(m) ==
    IF m.applications.kind = "object" /\ m.applications.gecko = "object"
    THEN m.applications.id ELSE Undefined
ModernIdOf(m) ==
    IF m.browser_specific_settings.kind = "object"
       /\ m.browser_specific_settings.gecko = "object"
    THEN m.browser_specific_settings.id ELSE Undefined
Parsed(m) == m.unzips /\ m.parses

\* C3 as stated: the legacy identifier is returned whenever it is present,
\* otherwise the modern one when it is present; extraction fails when neither
\* is present.
C3_LegacyWheneverPresent ==
    (idRet.done /\ Parsed(manifest)) =>
        LET leg == LegacyIdOf(manifest)
            mod == ModernIdOf(manifest)
        IN  /\ leg # Undefined => (idRet.ok /\ idRet.id = leg)
            /\ (leg = Undefined /\ mod # Undefined) => (idRet.ok /\ idRet.id = mod)
            /\ (leg = Undefined /\ mod = Undefined) => ~idRet.ok

\* C3 amended: the legacy identifier is returned whenever it is present and
\* non-empty, otherwise the modern one when it is present and non-empty;
\* extraction fails when neither is present and non-empty.
C3_LegacyWheneverNonEmpty ==
    (idRet.done /\ Parsed(manifest)) =>
        LET leg == LegacyIdOf(manifest)
            mod == ModernIdOf(manifest)
            Usable(x) == x # Undefined /\ x # ""
        IN  /\ Usable(leg) => (idRet.ok /\ idRet.id = leg)
            /\ (~Usable(leg) /\ Usable(mod)) => (idRet.ok /\ idRet.id = mod)
            /\ (~Usable(leg) /\ ~Usable(mod)) => ~idRet.ok

\* both identifiers declared, different, and the legacy one returned
C3_Witness ==
    /\ idRet.done /\ idRet.ok
    /\ LegacyIdOf(manifest) = IdA
    /\ ModernIdOf(manifest) = IdB
    /\ idRet.id = IdA

Range(q) == {q[i] : i \in 1..Len(q)}
SourceURIsOf(file) == {file.addons[i].sourceURI : i \in 1..Len(file.addons)}

\* C9: extensions.json is used whenever it exists and addons.json is then
\* never read; addons.json is used only when extensions.json does not exist;
\* with neither file the read fails with a not-found error.
C9_ModernRegistryPreferred ==
    regOp = "getInstalledExtensionSourceUrls" =>
        /\ extensionsJson.exists =>
              /\ regRead = {FIREFOX_EXTENSIONS_JSON_FILENAME}
              /\ Range(regRet.urls) \subseteq SourceURIsOf(extensionsJson)
        /\ (~extensionsJson.exists /\ addonsJson.exists) =>
              /\ regRead = {FIREFOX_ADDONS_JSON_FILENAME}
              /\ Range(regRet.urls) \subseteq SourceURIsOf(addonsJson)
        /\ (~extensionsJson.exists /\ ~addonsJson.exists) =>
              /\ regRead = {}
              /\ ~regRet.ok
              /\ regRet.err = "NotFound:Registry"
        /\ regRet.err = "NotFound:Registry" =>
              (~extensionsJson.exists /\ ~addonsJson.exists)

\* both files are there, extensions.json does not parse, and the read has
\* failed without touching addons.json
C9_Witness ==
    /\ regOp = "getInstalledExtensionSourceUrls"
    /\ extensionsJson.exists /\ ~extensionsJson.valid
    /\ addonsJson.exists /\ addonsJson.valid /\ Len(addonsJson.addons) > 0
    /\ ~regRet.ok
    /\ regRead = {FIREFOX_EXTENSIONS_JSON_FILENAME}

ExportedFromModern ==
    /\ regOp = "getInstalledExtensionSourceUrls"
    /\ extensionsJson.exists /\ extensionsJson.valid

AllSourceValues == {Undefined, "", UrlA, UrlB}

\* C10 as stated: a URL is exported iff some record has type "extension",
\* location "app-profile", active exactly true and a present sourceURI equal
\* to it; no record raises an error.
C10_ExportedIffEligible ==
    ExportedFromModern =>
        /\ regRet.ok
        /\ \A u \in AllSourceValues \ {Undefined} :
              u \in Range(regRet.urls) <=>
                  \E i \in 1..Len(extensionsJson.addons) :
                      LET r == extensionsJson.addons[i]
                      IN  /\ r.type = "extension"
                          /\ r.location = "app-profile"
                          /\ r.active = "true"
                          /\ r.sourceURI # Undefined
                          /\ r.sourceURI = u

\* C10 amended: a URL is exported iff some record has type "extension",
\* location "app-profile", active exactly true and a present, non-empty
\* sourceURI equal to it; no record raises an error.
C10_ExportedIffEligibleNonEmpty ==
    ExportedFromModern =>
        /\ regRet.ok
        /\ \A u \in AllSourceValues \ {Undefined} :
              u \in Range(regRet.urls) <=>
                  \E i \in 1..Len(extensionsJson.addons) :
                      LET r == extensionsJson.addons[i]
                      IN  /\ r.type = "extension"
                          /\ r.location = "app-profile"
                          /\ r.active = "true"
                          /\ r.sourceURI # Undefined
                          /\ r.sourceURI # ""
                          /\ r.sourceURI = u

\* an eligible record beside one that is active only in the truthy sense:
\* the first is exported, the second is not
C10_Witness ==
    /\ ExportedFromModern
    /\ Len(extensionsJson.addons) = 2
    /\ extensionsJson.addons[1] =
          [type |-> "extension", location |-> "app-profile",
           active |-> "true", sourceURI |-> UrlA]
    /\ extensionsJson.addons[2] =
          [type |-> "extension", location |-> "app-profile",
           active |-> "1", sourceURI |-> UrlB]
    /\ regRet.urls = <<UrlA>>

UrlsLoaded == urlsFile.exists /\ urlsFile.valid /\ urlsFile.hasUrls
ErrorLogged(url, msg) ==
    \E j \in 1..Len(log) : log[j] = [level |-> "error", url |-> url, msg |-> msg]

\* C1: over a loaded URL list the batch calls the install for every URL once,
\* in list order; every failed install is caught and logged, no install's
\* failure takes the batch out of its loop, and the batch ends only by
\* running out of URLs, every URL attempted and settled.
C1_BatchAttemptsEveryUrl ==
    /\ Len(attempted) <= Len(urlsFile.urls)
    /\ attempted = SubSeq(urlsFile.urls, 1, Len(attempted))
    /\ \A i \in 1..Len(outcomes) :
          outcomes[i] # "ok" => ErrorLogged(urlsFile.urls[i], outcomes[i])
    /\ UrlsLoaded =>
          /\ batchPc \in {"start", "iterating", "returned"}
          /\ batchPc # "start" => Len(outcomes) = urlIndex - 1
          /\ batchPc = "iterating" => Len(attempted) \in {urlIndex - 1, urlIndex}
          /\ batchPc = "returned" =>
                /\ attempted = urlsFile.urls
                /\ Len(outcomes) = Len(urlsFile.urls)
    /\ ~UrlsLoaded => attempted = <<>>

\* two URLs, the first install failed at its download, the second succeeded
C1_Witness ==
    /\ batchPc = "returned"
    /\ urlsFile.urls = <<UrlB, UrlA>>
    /\ attempted = <<UrlB, UrlA>>
    /\ outcomes = <<"Download:Status", "ok">>

\* C2: when an install has settled, unlink of the staged file was attempted;
\* if unlink did not throw, no staged file is left; if it threw, that is
\* logged as a warning; either way the install settles with what its steps
\* left: success, or the error of the step that failed.
C2_CleanupAlwaysAttempted ==
    pc = "settled" =>
        /\ unlinkTried
        /\ ~unlinkThrew => tempFilePath \notin DOMAIN tmpFiles
        /\ unlinkThrew => (Len(log) > 0 /\ log[Len(log)].level = "warn")
        /\ installResult = IF pending = "none" THEN "ok" ELSE pending

\* a commit succeeded, unlink threw, and the install still settled with
\* success, the staged file left behind
C2_Witness ==
    /\ pc = "settled"
    /\ unlinkThrew
    /\ pending = "none"
    /\ installResult = "ok"
    /\ tempFilePath \in DOMAIN tmpFiles
    /\ IdA \in DOMAIN extFiles

----------------------------------------------------------------------------
(* Specification SpecGenerate: "generate", which locates the default       *)
(* profile, reads its registry and persists the URL list                   *)

MaxGenAddons == 4
UrlC == "https://addons.example/c.xpi"

\* registry records: eligible ones with each kind of sourceURI, and one that
\* is not active
GenModernAddons ==
    {[type |-> FIREFOX_ADDON_TYPE_EXTENSION, location |-> FIREFOX_PROFILE_LOCATION_PROFILE,
      active |-> "true", sourceURI |-> u] : u \in {"", UrlA, UrlB, UrlC}}
    \cup {[type |-> FIREFOX_ADDON_TYPE_EXTENSION, location |-> FIREFOX_PROFILE_LOCATION_PROFILE,
           active |-> "false", sourceURI |-> UrlA]}
GenLegacyAddons == [sourceURI : {Undefined, UrlA, UrlB, UrlC}]

GenRegistryFiles(records) ==
    {BadJsonFile, JsonFile(FALSE, <<>>)}
    \cup {JsonFile(TRUE, as) : as \in SeqsUpTo(records, MaxGenAddons)}

\* no registry, a registry naming a missing profile, and one naming a profile
\* that is there
GenDisks ==
    { [ini |-> [exists |-> FALSE, text |-> <<>>], dirs |-> {BaseDir}],
      [ini |-> GoodIni, dirs |-> {BaseDir}],
      [ini |-> GoodIni, dirs |-> {BaseDir, ProfileP}] }

\* a urls.json left by an earlier run
StaleUrlsFile == [exists |-> TRUE, valid |-> TRUE, hasUrls |-> TRUE, urls |-> <<UrlA, UrlA>>]

InitGenerate ==
    /\ \E d \in GenDisks : profilesIni = d.ini /\ fsDirs = d.dirs
    /\ fsFiles = {}
    /\ IF ProfileP \in fsDirs
       THEN \/ /\ extensionsJson \in GenRegistryFiles(GenModernAddons)
               /\ addonsJson \in {NoFile, JsonFile(TRUE, <<[sourceURI |-> UrlB]>>)}
            \/ /\ extensionsJson = NoFile
               /\ addonsJson \in {NoFile} \cup GenRegistryFiles(GenLegacyAddons)
       ELSE extensionsJson = NoFile /\ addonsJson = NoFile
    /\ regOp = "none"
    /\ regRet = NoUrls
    /\ regRead = {}
    /\ urlsFile \in {NoUrlsFile, StaleUrlsFile}
    /\ PipelineIdle
    /\ ParseIdle /\ LocIdle /\ ManIdle /\ AppIdle

\* writeUrlsJsonFromInstalledFirefoxExtensions: the profile is located, its
\* registry read, and the URLs written to urls.json, which the disk may refuse
WriteUrlsJson ==
    /\ regOp = "none"
    /\ regOp' = "writeUrlsJsonFromInstalledFirefoxExtensions"
    /\ LET profile == getDefaultFirefoxProfileDirectoryPath(profilesIni, fsDirs, fsFiles)
           r == getInstalledExtensionSourceUrls(extensionsJson, addonsJson)
       IN  IF ~profile.ok
           THEN regRet' = Threw(profile.err) /\ regRead' = regRead /\ urlsFile' = urlsFile
           ELSE IF ~r.ret.ok
           THEN regRet' = r.ret /\ regRead' = r.read /\ urlsFile' = urlsFile
           ELSE /\ regRead' = r.read
                /\ \/ /\ urlsFile' = [exists |-> TRUE, valid |-> TRUE, hasUrls |-> TRUE,
                                       urls |-> r.ret.urls]
                      /\ regRet' = r.ret
                   \/ /\ urlsFile' = urlsFile
                      /\ regRet' = Threw("Filesystem:Write")
    /\ UNCHANGED <<extensionsJson, addonsJson, diskVars, parseVars, locVars, manVars, appVars,
                   batchPc, urlIndex, pc, tempFilePath, buffer, tmpFiles, pending,
                   installResult, unlinkTried, unlinkThrew, extFiles, log, attempted,
                   outcomes, exitCode>>

NextGenerate == WriteUrlsJson

SpecGenerate == InitGenerate /\ [][NextGenerate]_vars

Generated == regOp = "writeUrlsJsonFromInstalledFirefoxExtensions" /\ regRet.ok

EligibleModern(r) ==
    /\ r.type = "extension" /\ r.location = "app-profile" /\ r.active = "true"
    /\ r.sourceURI # Undefined /\ r.sourceURI # ""
EligibleLegacy(r) == r.sourceURI # Undefined /\ r.sourceURI # ""
\* the eligible URLs of the registry that is read, in registry order
EligibleUrls ==
    LET recs == IF extensionsJson.exists
                THEN SelectSeq(extensionsJson.addons, EligibleModern)
                ELSE SelectSeq(addonsJson.addons, EligibleLegacy)
    IN  [i \in 1..Len(recs) |-> recs[i].sourceURI]
FirstAt(q, u) == CHOOSE i \in 1..Len(q) : q[i] = u /\ \A j \in 1..(i - 1) : q[j] # u

\* C11: the list that generate persists holds every eligible URL of the
\* registry exactly once, in the order of the URLs' first occurrences.
C11_GeneratedListUniqueFirstSeen ==
    Generated =>
        LET out == urlsFile.urls
        IN  /\ urlsFile.exists /\ urlsFile.valid /\ urlsFile.hasUrls
            /\ out = regRet.urls
            /\ Range(out) = Range(EligibleUrls)
            /\ \A i, j \in 1..Len(out) :
                  i < j => /\ out[i] # out[j]
                           /\ FirstAt(EligibleUrls, out[i]) < FirstAt(EligibleUrls, out[j])

\* the eligible sequence B, A, B, C was persisted as B, A, C
C11_Witness ==
    /\ Generated
    /\ EligibleUrls = <<UrlB, UrlA, UrlB, UrlC>>
    /\ urlsFile.urls = <<UrlB, UrlA, UrlC>>

----------------------------------------------------------------------------
(* Specification SpecMetadata: the display names of the installed          *)
(* extensions (profile-discovery.ts: getExtensionMetadataMap)              *)

MaxMetaAddons == 2

\* addon.defaultLocale?.name
LocaleName(addon) ==
    IF addon.defaultLocale.present THEN addon.defaultLocale.name ELSE Undefined

\* addon.defaultLocale?.name ?? addon.id ?? sourceUri
MetaName(addon) ==
    IF LocaleName(addon) # Undefined THEN LocaleName(addon)
    ELSE IF addon.id # Undefined THEN addon.id
    ELSE addon.sourceURI

\* buildMetadataMap: the loop from addon i on, with the map so far
RECURSIVE MetaLoop(_, _, _)
MetaLoop(addons, i, map) ==
    IF i > Len(addons) THEN map
    ELSE IF Falsy(addons[i].sourceURI) THEN MetaLoop(addons, i + 1, map)
    ELSE MetaLoop(addons, i + 1, Put(map, addons[i].sourceURI, MetaName(addons[i])))

buildMetadataMap(extensionsJsonValue) == MetaLoop(AddonsOf(extensionsJsonValue), 1, <<>>)

\* getExtensionMetadataMap: [done, ok, map]
getExtensionMetadataMap(ext) ==
    IF ext.exists
    THEN IF ~ext.valid THEN [done |-> TRUE, ok |-> FALSE, map |-> <<>>]
         ELSE [done |-> TRUE, ok |-> TRUE, map |-> buildMetadataMap(ext)]
    ELSE [done |-> TRUE, ok |-> TRUE, map |-> <<>>]

MetaAddons ==
    { [type |-> k.type, location |-> k.location, active |-> k.active,
       sourceURI |-> u, defaultLocale |-> l, id |-> d] :
         k \in { [type |-> FIREFOX_ADDON_TYPE_EXTENSION,
                  location |-> FIREFOX_PROFILE_LOCATION_PROFILE, active |-> "true"],
                 [type |-> "theme", location |-> "app-system-defaults", active |-> "false"] },
         u \in {Undefined, "", UrlA, UrlB},
         l \in { [present |-> FALSE, name |-> Undefined], [present |-> TRUE, name |-> Undefined],
                 [present |-> TRUE, name |-> ""], [present |-> TRUE, name |-> "Tab Tidy"] },
         d \in {Undefined, IdA} }

InitMetadata ==
    /\ extensionsJson \in {NoFile, BadJsonFile, JsonFile(FALSE, <<>>)}
                          \cup {JsonFile(TRUE, as) : as \in SeqsUpTo(MetaAddons, MaxMetaAddons)}
    /\ addonsJson \in {NoFile, JsonFile(TRUE, <<[sourceURI |-> UrlB]>>)}
    /\ regOp = "none"
    /\ regRet = NoUrls
    /\ regRead = {}
    /\ AppIdle
    /\ DiskIdle /\ ParseIdle /\ LocIdle /\ ManIdle /\ InstallIdle

ReadMetadataMap ==
    /\ ~metadataMap.done
    /\ metadataMap' = getExtensionMetadataMap(extensionsJson)
    /\ UNCHANGED <<regVars, diskVars, parseVars, locVars, manVars, installVars,
                   menuVars, entryPc, runs, variantRet>>

NextMetadata == ReadMetadataMap

SpecMetadata == InitMetadata /\ [][NextMetadata]_vars

\* the records of the profile's registry, extensions.json before addons.json
RegistryRecords ==
    IF extensionsJson.exists THEN extensionsJson.addons ELSE addonsJson.addons
UsableSource(r) == r.sourceURI # Undefined /\ r.sourceURI # ""
\* the name the claim gives a record: locale display name, else identifier,
\* else the URL; a legacy record has neither of the first two
ClaimedName(r) ==
    IF "defaultLocale" \in DOMAIN r /\ r.defaultLocale.present
       /\ r.defaultLocale.name # Undefined
    THEN r.defaultLocale.name
    ELSE IF "id" \in DOMAIN r /\ r.id # Undefined THEN r.id
    ELSE r.sourceURI

\* C12: once the registry has been read without a parse error, the map's
\* keys are the usable sourceURIs of the registry's records, whatever their
\* type, location and active are, and each key's name is the locale display
\* name, else the identifier, else the URL, of the last record with that
\* sourceURI.
C12_EveryUsableRecordNamed ==
    (metadataMap.done /\ metadataMap.ok) =>
        LET recs == RegistryRecords
            usable == {i \in 1..Len(recs) : UsableSource(recs[i])}
        IN  /\ DOMAIN metadataMap.map = {recs[i].sourceURI : i \in usable}
            /\ \A i \in usable :
                  (\A j \in usable : j > i => recs[j].sourceURI # recs[i].sourceURI)
                  => metadataMap.map[recs[i].sourceURI] = ClaimedName(recs[i])

----------------------------------------------------------------------------
(* Specification SpecMenu: the interactive menu loop (runMainMenu and its  *)
(* handlers); an install of one URL is taken by its outcome                *)

MaxRounds == 2

\* the archive a URL serves
ArchiveOf(url) ==
    IF url = UrlA THEN [reader |-> "end", manifest |-> LegacyManifest(IdA)]
    ELSE [reader |-> "end", manifest |-> ModernManifest(IdB)]

\* what installXPIFromUrl can settle with
MenuOutcomes == {"ok", "Download:Status", "Filesystem:Copy"}

Report(level, msg) == [level |-> level, url |-> "none", msg |-> msg]

\* the catch around installXPIFromUrl in handleInstallSelected, rethrowing
SelectedAfterInstallRethrowing(result) == IF result = "ok" THEN "continue" ELSE "abort"

\* the catch around installXPIFromUrl in handleInstallSelected (lines
\* 103-108): the loop goes on
SelectedAfterInstall(result) == "continue"

\* the for loop over urls of installXPIFromUrls ("install-all") and of
\* handleInstallSelected, from position i on; outs[i] is what the install of
\* urls[i] settles with
RECURSIVE InstallLoop(_, _, _, _, _)
InstallLoop(which, urls, outs, i, acc) ==
    IF i > Len(urls) THEN acc
    ELSE LET url == urls[i]
             res == outs[i]
             goesOn == IF which = "install-all"
                       THEN BatchAfterInstall(res) = "iterating"
                       ELSE SelectedAfterInstall(res) = "continue"
             next == [log |-> IF res = "ok" THEN acc.log
                              ELSE Append(acc.log, [level |-> "error", url |-> url, msg |-> res]),
                      ext |-> IF res = "ok"
                              THEN Put(acc.ext, getExtensionId(ArchiveOf(url).manifest).id,
                                       ArchiveOf(url))
                              ELSE acc.ext,
                      attempted |-> Append(acc.attempted, url),
                      outcomes |-> Append(acc.outcomes, res),
                      stopped |-> ~goesOn]
         IN  IF goesOn THEN InstallLoop(which, urls, outs, i + 1, next) ELSE next

\* what the multiselect prompt can answer over the options built from urls
SelectionsOf(urls) ==
    {[cancelled |-> TRUE, urls |-> <<>>]}
    \cup {[cancelled |-> FALSE, urls |-> q] :
             q \in {x \in SeqsUpTo(Range(urls), Cardinality(Range(urls))) :
                       \A i, j \in 1..Len(x) : i # j => x[i] # x[j]}}

MenuRegistry ==
    JsonFile(TRUE, <<[type |-> FIREFOX_ADDON_TYPE_EXTENSION,
                      location |-> FIREFOX_PROFILE_LOCATION_PROFILE,
                      active |-> "true", sourceURI |-> UrlB],
                     [type |-> FIREFOX_ADDON_TYPE_EXTENSION,
                      location |-> FIREFOX_PROFILE_LOCATION_PROFILE,
                      active |-> "true", sourceURI |-> UrlA]>>)

InitMenu ==
    /\ \/ /\ profilesIni = [exists |-> FALSE, text |-> <<>>]
          /\ fsDirs = {BaseDir}
          /\ extensionsJson = NoFile
       \/ /\ profilesIni = GoodIni
          /\ fsDirs = {BaseDir, ProfileP}
          /\ extensionsJson = MenuRegistry
    /\ fsFiles = {}
    /\ addonsJson = NoFile
    /\ regOp = "none" /\ regRet = NoUrls /\ regRead = {}
    /\ urlsFile \in UrlsFiles
    /\ PipelineIdle
    /\ ParseIdle /\ LocIdle /\ ManIdle /\ AppIdle

menuFrame == <<diskVars, parseVars, locVars, regVars, manVars, metadataMap, entryPc, runs,
               variantRet, batchPc, urlIndex, pc, tempFilePath, buffer, tmpFiles, pending,
               installResult, unlinkTried, unlinkThrew>>

\* lines 121-135: the prompt is answered with a choice
Answer(choice) ==
    /\ menuPc = "prompt"
    /\ rounds < MaxRounds
    /\ rounds' = rounds + 1
    /\ lastChoice' = choice

\* "generate": handleGenerateUrls, which catches whatever the export throws
ChooseGenerate ==
    /\ Answer("generate")
    /\ LET profile == getDefaultFirefoxProfileDirectoryPath(profilesIni, fsDirs, fsFiles)
           r == getInstalledExtensionSourceUrls(extensionsJson, addonsJson)
           failed == Append(log, Report("error", "Failed to generate urls.json"))
       IN  IF ~profile.ok \/ ~r.ret.ok
           THEN urlsFile' = urlsFile /\ log' = failed
           ELSE \/ /\ urlsFile' = [exists |-> TRUE, valid |-> TRUE, hasUrls |-> TRUE,
                                   urls |-> r.ret.urls]
                   /\ log' = Append(log, Report("log", "Successfully generated urls.json"))
                \/ urlsFile' = urlsFile /\ log' = failed
    /\ attempted' = <<>> /\ outcomes' = <<>>
    /\ UNCHANGED <<menuPc, selected, extFiles, exitCode, menuFrame>>

\* "install-all": handleInstallAll around installXPIFromUrls
ChooseInstallAll ==
    /\ Answer("install-all")
    /\ IF ~urlsFile.exists \/ ~urlsFile.valid
       THEN /\ log' = Append(log, Report("error", "urls.json not found. Please generate it first."))
            /\ attempted' = <<>> /\ outcomes' = <<>> /\ extFiles' = extFiles
       ELSE IF ~urlsFile.hasUrls
       THEN /\ log' = Append(log, Report("error", "Error installing extensions"))
            /\ attempted' = <<>> /\ outcomes' = <<>> /\ extFiles' = extFiles
       ELSE \E outs \in [1..Len(urlsFile.urls) -> MenuOutcomes] :
               LET done == InstallLoop("install-all", urlsFile.urls, outs, 1,
                                       [log |-> log, ext |-> extFiles, attempted |-> <<>>,
                                        outcomes |-> <<>>, stopped |-> FALSE])
               IN  /\ log' = Append(done.log,
                                    IF done.stopped
                                    THEN Report("error", "Error installing extensions")
                                    ELSE Report("log", "All extensions installed successfully"))
                   /\ attempted' = done.attempted
                   /\ outcomes' = done.outcomes
                   /\ extFiles' = done.ext
    /\ UNCHANGED <<menuPc, selected, urlsFile, exitCode, menuFrame>>

\* "install-selected": handleInstallSelected; the menu items are built from
\* urlsJson.urls before any try block is entered
ChooseInstallSelected ==
    /\ Answer("install-selected")
    /\ IF ~urlsFile.exists \/ ~urlsFile.valid
       THEN /\ log' = Append(log, Report("error", "urls.json not found. Please generate it first."))
            /\ attempted' = <<>> /\ outcomes' = <<>> /\ extFiles' = extFiles
            /\ selected' = NoSelection
            /\ UNCHANGED <<menuPc, exitCode>>
       ELSE IF ~urlsFile.hasUrls
       THEN /\ log' = Append(log, Report("error", "Unexpected error"))
            /\ attempted' = <<>> /\ outcomes' = <<>> /\ extFiles' = extFiles
            /\ selected' = NoSelection
            /\ menuPc' = "crashed"
            /\ exitCode' = "1"
       ELSE \E sel \in SelectionsOf(urlsFile.urls) :
               /\ selected' = sel
               /\ UNCHANGED <<menuPc, exitCode>>
               /\ IF sel.cancelled \/ sel.urls = <<>>
                  THEN /\ log' = log
                       /\ attempted' = <<>> /\ outcomes' = <<>> /\ extFiles' = extFiles
                  ELSE \E outs \in [1..Len(sel.urls) -> MenuOutcomes] :
                          LET done == InstallLoop("install-selected", sel.urls, outs, 1,
                                                  [log |-> log, ext |-> extFiles,
                                                   attempted |-> <<>>, outcomes |-> <<>>,
                                                   stopped |-> FALSE])
                          IN  /\ log' = Append(done.log,
                                               IF done.stopped
                                               THEN Report("error", "Error during installation")
                                               ELSE Report("log", "Selected extensions installed"))
                              /\ attempted' = done.attempted
                              /\ outcomes' = done.outcomes
                              /\ extFiles' = done.ext
    /\ UNCHANGED <<urlsFile, menuFrame>>

\* "exit": the loop ends and with it the process
ChooseExit ==
    /\ Answer("exit")
    /\ menuPc' = "ended"
    /\ exitCode' = "0"
    /\ UNCHANGED <<selected, urlsFile, log, attempted, outcomes, extFiles, menuFrame>>

\* the prompt is interrupted: select answers with a symbol
Interrupt ==
    /\ Answer("interrupt")
    /\ menuPc' = "ended"
    /\ exitCode' = "0"
    /\ log' = Append(log, Report("log", "Exiting..."))
    /\ UNCHANGED <<selected, urlsFile, attempted, outcomes, extFiles, menuFrame>>

NextMenu ==
    \/ ChooseGenerate
    \/ ChooseInstallAll
    \/ ChooseInstallSelected
    \/ ChooseExit
    \/ Interrupt

SpecMenu == InitMenu /\ [][NextMenu]_vars

\* C13: no action of the menu ends the loop or the process: the loop has
\* ended exactly when the last answer was exit or an interrupt, and the
\* process never exits with an error status.
C13_MenuRedisplayedAfterAction ==
    /\ menuPc \in {"prompt", "ended"}
    /\ menuPc = "ended" <=> lastChoice \in {"exit", "interrupt"}
    /\ exitCode # "1"

\* C14: "install selected" calls the install for the chosen URLs, each once
\* and in the chosen order, and for nothing else; a failed install is logged
\* and the next chosen URL is still tried; a cancelled or empty selection,
\* or a list that cannot be loaded, installs nothing.
C14_SelectedInstallsExactlyChosen ==
    lastChoice = "install-selected" =>
        LET chosen == IF selected.cancelled THEN <<>> ELSE selected.urls
        IN  /\ attempted = chosen
            /\ Len(outcomes) = Len(attempted)
            /\ Range(attempted) \subseteq Range(urlsFile.urls)
            /\ \A i, j \in 1..Len(attempted) : i # j => attempted[i] # attempted[j]
            /\ \A i \in 1..Len(outcomes) :
                  outcomes[i] # "ok" => ErrorLogged(attempted[i], outcomes[i])
            /\ ~UrlsLoaded => attempted = <<>>

\* B then A were chosen from the list A, B; B failed to download and A was
\* still installed
C14_Witness ==
    /\ lastChoice = "install-selected"
    /\ urlsFile.urls = <<UrlA, UrlB>>
    /\ selected = [cancelled |-> FALSE, urls |-> <<UrlB, UrlA>>]
    /\ attempted = <<UrlB, UrlA>>
    /\ outcomes = <<"Download:Status", "ok">>
    /\ IdA \in DOMAIN extFiles

----------------------------------------------------------------------------
(* Specification SpecEntry: the non-interactive entrypoint, which runs the *)
(* batch install and settles on its promise                                *)

InitEntry ==
    /\ InitBatch
    /\ entryPc = "awaiting"
    /\ metadataMap = NoMap /\ MenuIdle /\ runs = <<>> /\ variantRet = "none"

\* the catch handler's process.exit with status zero
EntryCatchStatusZero == "0"

\* process.exit(1) of the catch handler (line 8)
EntryCatchStatus == "1"

entryFrame == <<urlsFile, batchPc, urlIndex, pc, tempFilePath, buffer, tmpFiles, pending,
                installResult, unlinkTried, unlinkThrew, extFiles, attempted, outcomes,
                diskVars, parseVars, locVars, regVars, manVars, metadataMap, menuVars, runs,
                variantRet>>

\* lines 3-5: the batch resolved; nothing is left to run and the process ends
EntryThen ==
    /\ entryPc = "awaiting" /\ batchPc = "returned"
    /\ log' = Append(log, Report("log", "XPI files installed successfully"))
    /\ entryPc' = "settled"
    /\ exitCode' = "0"
    /\ UNCHANGED entryFrame

\* lines 5-9: the batch rejected
EntryCatch ==
    /\ entryPc = "awaiting" /\ batchPc = "threw"
    /\ log' = Append(log, Report("error", "Error installing XPI files"))
    /\ entryPc' = "settled"
    /\ exitCode' = EntryCatchStatus
    /\ UNCHANGED entryFrame

NextEntry ==
    \/ BatchStart
    \/ BatchReturn
    \/ InstallBegin
    \/ Download
    \/ Stage
    \/ Process
    \/ ResolveDirectory
    \/ Identity
    \/ Commit
    \/ Cleanup
    \/ BatchAfter
    \/ EntryThen
    \/ EntryCatch

SpecEntry == InitEntry /\ [][NextEntry]_vars

SuccessReported ==
    \E j \in 1..Len(log) : log[j] = Report("log", "XPI files installed successfully")
FailedUrls == {i \in 1..Len(outcomes) : outcomes[i] # "ok"}

\* C15: when the entrypoint has settled after a batch, every failed URL has
\* been logged as a failure, and if any URL failed the run is not reported
\* as a success.
C15_ReportReflectsFailures ==
    entryPc = "settled" =>
        /\ \A i \in FailedUrls : ErrorLogged(urlsFile.urls[i], outcomes[i])
        /\ FailedUrls # {} => ~SuccessReported

\* C16: a process that has ended has ended with a non-zero status exactly
\* when the URL list was missing, not JSON, or without a usable urls field;
\* failed installs alone leave the status zero.
C16_NonZeroExitOnTopLevelFailure ==
    /\ exitCode # "none" => (exitCode = "1" <=> ~UrlsLoaded)
    /\ batchPc = "exited" => (exitCode = "1" /\ ~urlsFile.exists)
    /\ entryPc = "settled" => exitCode # "none"
    /\ (entryPc = "settled" /\ FailedUrls # {}) => exitCode = "0"

\* urls.json parses but has no urls field: the batch rejected and the
\* process ended with status 1
C16_Witness ==
    /\ urlsFile.exists /\ urlsFile.valid /\ ~urlsFile.hasUrls
    /\ batchPc = "threw"
    /\ entryPc = "settled"
    /\ exitCode = "1"

----------------------------------------------------------------------------
(* The order of the steps of one install *)

TrySteps == {"download", "stage", "process", "resolve", "identity", "commit"}
StepAfter(step) ==
    CASE step = "idle" -> "download"
      [] step = "download" -> "stage"
      [] step = "stage" -> "process"
      [] step = "process" -> "resolve"
      [] step = "resolve" -> "identity"
      [] step = "identity" -> "commit"
      [] step = "commit" -> "cleanup"
      [] step = "cleanup" -> "settled"
      [] step = "settled" -> "idle"
Committing == pc = "commit" /\ pc' = "cleanup" /\ pending' = "none"

\* C17: every step of an install is followed by the next one in the order
\* download, stage, inspect, resolve, identity, commit, cleanup, or, when it
\* failed, by cleanup; after a failure only cleanup runs; and a commit, the
\* only step that changes the extensions directory, finds the archive
\* downloaded, staged, inspected to its end, the extensions directory there
\* and the identity extracted, and writes the staged archive to that
\* identity's file, whatever was there, leaving the other files alone.
C17_StepsInOrderCommitLast ==
    [][ /\ pc' # pc =>
              \/ pc' = StepAfter(pc) /\ pending' = pending
              \/ pc = "idle" /\ pc' = "download" /\ pending' = "none"
              \/ pc \in TrySteps /\ pc' = "cleanup" /\ pending = "none" /\ pending' # "none"
        /\ pending # "none" => pc \in {"cleanup", "settled", "idle"}
        /\ extFiles' # extFiles => Committing
        /\ Committing =>
              /\ buffer \in Archives
              /\ tempFilePath \in DOMAIN tmpFiles /\ tmpFiles[tempFilePath] = buffer
              /\ buffer.reader = "end"
              /\ ProfileP \o <<N_extensions>> \in fsDirs
              /\ GeckoId(buffer.manifest.applications) \in {IdA, IdB}
                 \/ GeckoId(buffer.manifest.browser_specific_settings) \in {IdA, IdB}
              /\ \E id \in {IdA, IdB} :
                    /\ id \in { GeckoId(buffer.manifest.applications),
                                 GeckoId(buffer.manifest.browser_specific_settings) }
                    /\ DOMAIN extFiles' = DOMAIN extFiles \cup {id}
                    /\ extFiles'[id] = buffer
                    /\ \A n \in DOMAIN extFiles \ {id} : extFiles'[n] = extFiles[n]
      ]_vars

\* the second install of a batch has committed to the file the first one
\* wrote
C17_Witness ==
    /\ pc = "cleanup" /\ pending = "none"
    /\ urlIndex = 2
    /\ outcomes = <<"ok">>
    /\ GeckoId(buffer.manifest.applications) = IdA
    /\ DOMAIN extFiles = {IdA}
    /\ extFiles[IdA] = buffer

----------------------------------------------------------------------------
(* Specification SpecPipeline: one install by installXPIFromUrl, and beside *)
(* it the same install by the pipeline that has no inspect step            *)

\* installXPIFromUrl without lines 180-182, on a download outcome, a disk and
\* an extensions directory, with what the writes of lines 178 and 190 and the
\* unlink of line 196 do
InstallWithoutInspect(o, writeOk, copyOk, threw, ini, dirs, files, ext) ==
    IF ~o.ok
    THEN [result |-> FinallyResult(o.err, threw), files |-> ext, dirs |-> dirs]
    ELSE IF ~writeOk
    THEN [result |-> FinallyResult("Stage:Write", threw), files |-> ext, dirs |-> dirs]
    ELSE LET r == xpiGetFirefoxExtensionsDirectory(ini, dirs, files)
             id == getExtensionId(o.archive.manifest)
         IN  IF ~r.ret.ok
             THEN [result |-> FinallyResult(r.ret.err, threw),
                   files |-> ext, dirs |-> r.dirs]
             ELSE IF ~id.ok
             THEN [result |-> FinallyResult("Parse:Identity", threw),
                   files |-> ext, dirs |-> r.dirs]
             ELSE IF ~copyOk
             THEN [result |-> FinallyResult("Filesystem:Copy", threw),
                   files |-> ext, dirs |-> r.dirs]
             ELSE [result |-> FinallyResult("none", threw),
                   files |-> Put(ext, id.id, o.archive), dirs |-> r.dirs]

\* an extensions directory as an earlier run can have left it
InstalledBefore ==
    { NoFiles,
      Put(NoFiles, IdA, [reader |-> "end", manifest |-> ModernManifest(IdB)]) }

InitPipeline ==
    /\ \E d \in InstallDisks :
          profilesIni = d.ini /\ fsDirs = d.dirs /\ fsFiles = d.files
    /\ urlsFile = [exists |-> TRUE, valid |-> TRUE, hasUrls |-> TRUE, urls |-> <<UrlA>>]
    /\ extFiles \in InstalledBefore
    /\ batchPc = "start" /\ urlIndex = 0
    /\ pc = "idle" /\ tempFilePath = "none" /\ buffer = NoArchive /\ tmpFiles = NoFiles
    /\ pending = "none" /\ installResult = "none"
    /\ unlinkTried = FALSE /\ unlinkThrew = FALSE
    /\ log = <<>> /\ attempted = <<>> /\ outcomes = <<>> /\ exitCode = "none"
    /\ ParseIdle /\ LocIdle /\ RegIdle /\ ManIdle
    /\ metadataMap = NoMap /\ MenuIdle /\ entryPc = "none" /\ runs = <<>>
    /\ variantRet = [done |-> FALSE,
                     before |-> [result |-> "none", files |-> extFiles, dirs |-> fsDirs],
                     after |-> [result |-> "none", files |-> extFiles, dirs |-> fsDirs]]

\* what fetch did in the install that has settled
DownloadSeen ==
    IF buffer = NoArchive
    THEN [ok |-> FALSE, err |-> pending, archive |-> NoArchive]
    ELSE [ok |-> TRUE, err |-> "none", archive |-> buffer]

\* the pipeline without the inspect step runs on what the install started
\* from, the disk answering its writes as it answered the install's; a copy
\* the install never came to is answered either way
VariantInstall ==
    /\ pc = "settled" /\ ~variantRet.done
    /\ \E copyOk \in BOOLEAN :
          /\ pending = "Filesystem:Copy" => ~copyOk
          /\ pending = "none" => copyOk
          /\ variantRet' =
                [done |-> TRUE,
                 before |-> variantRet.before,
                 after |-> InstallWithoutInspect(DownloadSeen, pending # "Stage:Write", copyOk,
                                                 unlinkThrew, profilesIni, variantRet.before.dirs,
                                                 fsFiles, variantRet.before.files)]
    /\ UNCHANGED <<installVars, diskVars, parseVars, locVars, regVars, manVars, metadataMap,
                   menuVars, entryPc, runs>>

NextPipeline ==
    \/ BatchStart
    \/ InstallBegin
    \/ Download
    \/ Stage
    \/ Process
    \/ ResolveDirectory
    \/ Identity
    \/ Commit
    \/ Cleanup
    \/ VariantInstall

SpecPipeline == InitPipeline /\ [][NextPipeline]_vars

\* the inspect step of the install failed
InspectFailed == pending = "Processing:Reader"

\* C18 as stated: whatever the reader signals, the pipeline with the inspect
\* step and the one without it leave the same files in the extensions
\* directory and settle with the same success or failure.
C18_InspectStepRemovable ==
    variantRet.done =>
        /\ variantRet.after.files = extFiles
        /\ variantRet.after.result = installResult

\* C18: when the inspect step does not fail (the reader signals its end, or
\* an earlier step failed), the pipeline with the step and the one without it
\* leave the same files in the extensions directory and settle with the same
\* success or failure; when the reader signals an error, the pipeline with
\* the step settles with the processing error and leaves the extensions
\* directory as it found it.
C18_InspectStepRemovableOnEnd ==
    variantRet.done =>
        /\ ~InspectFailed =>
              /\ variantRet.after.files = extFiles
              /\ variantRet.after.result = installResult
              /\ variantRet.after.dirs = fsDirs
        /\ InspectFailed =>
              /\ buffer.reader = "error"
              /\ installResult = "Processing:Reader"
              /\ extFiles = variantRet.before.files

\* both pipelines have committed the same archive over the file an earlier
\* run left
C18_Witness ==
    /\ variantRet.done
    /\ installResult = "ok"
    /\ buffer.reader = "end"
    /\ IdA \in DOMAIN extFiles
    /\ extFiles[IdA] = buffer
    /\ variantRet.after.files = extFiles
    /\ variantRet.before.files # NoFiles
    /\ extFiles # variantRet.before.files

----------------------------------------------------------------------------
(* Specification SpecConcurrent: two invocations of the tool, each inside  *)
(* installXPIFromUrl, sharing the temporary directory and the profile      *)

Invocations == {1, 2}

\* Date.now() readings, and their decimal text
Times == {1, 2}
TimeText(ms) == IF ms = 1 THEN <<"1">> ELSE <<"2">>

\* Math.random().toString(36) texts: 0.5 is "0.i"; the others are longer
\* fractions
RandomTexts ==
    { <<"0", ".", "i">>,
      <<"0", ".", "4", "f", "z", "y", "o", "8">>,
      <<"0", ".", "z", "z", "z", "z", "z", "8">>,
      <<"0", ".", "4", "f", "z", "y", "o", "9">> }

\* String.prototype.substring(7): the text from its eighth character on
Substring7(text) == SubSeq(text, 8, Len(text))

\* line 174: the staged file's name below tmpdir()
StagedName(ms, text) ==
    <<"x", "p", "i", "-">> \o TimeText(ms) \o <<"-">> \o Substring7(text)
        \o <<".", "x", "p", "i">>

IdleRun == [pc |-> "idle", tempFilePath |-> <<>>, archive |-> NoArchive, pending |-> "none",
            id |-> "none", result |-> "none", startedAt |-> 0]

InitConcurrent ==
    /\ profilesIni = GoodIni
    /\ fsDirs = {BaseDir, ProfileP, ProfileP \o <<N_extensions>>}
    /\ fsFiles = {}
    /\ InstallIdle
    /\ ParseIdle /\ LocIdle /\ RegIdle /\ ManIdle
    /\ metadataMap = NoMap /\ MenuIdle /\ entryPc = "none" /\ variantRet = "none"
    /\ runs = [i \in Invocations |-> IdleRun]

concurrentFrame == <<profilesIni, fsFiles, urlsFile, batchPc, urlIndex, pc, tempFilePath, buffer,
                     pending, installResult, unlinkTried, unlinkThrew, attempted, outcomes,
                     exitCode, parseVars, locVars, regVars, manVars, metadataMap, menuVars,
                     entryPc, variantRet>>

InProgress(i) == runs[i].pc \notin {"idle", "settled"}
Staged(i) == runs[i].tempFilePath \in DOMAIN tmpFiles
RunFail(i, e) == runs' = [runs EXCEPT ![i].pc = "cleanup", ![i].pending = e]
RunGoes(i, step) == runs' = [runs EXCEPT ![i].pc = step]

\* line 174: the invocation reads the clock, which never runs backwards, and
\* draws a random number
RunBegin(i) ==
    /\ runs[i].pc = "idle"
    /\ \E ms \in Times, text \in RandomTexts :
          /\ \A j \in Invocations : runs[j].startedAt <= ms
          /\ runs' = [runs EXCEPT ![i].pc = "download",
                                  ![i].tempFilePath = StagedName(ms, text),
                                  ![i].startedAt = ms]
    /\ UNCHANGED <<tmpFiles, extFiles, fsDirs, log, concurrentFrame>>

\* line 177
RunDownload(i) ==
    /\ runs[i].pc = "download"
    /\ \E o \in DownloadOutcomes :
          IF o.ok THEN runs' = [runs EXCEPT ![i].pc = "stage", ![i].archive = o.archive]
          ELSE RunFail(i, o.err)
    /\ UNCHANGED <<tmpFiles, extFiles, fsDirs, log, concurrentFrame>>

\* line 178: Bun.write creates the staged file or replaces the one of that name
RunStage(i) ==
    /\ runs[i].pc = "stage"
    /\ tmpFiles' = Put(tmpFiles, runs[i].tempFilePath, runs[i].archive)
    /\ RunGoes(i, "process")
    /\ UNCHANGED <<extFiles, fsDirs, log, concurrentFrame>>

\* line 181: the reader opens the file of that name; a missing file is an error
RunProcess(i) ==
    /\ runs[i].pc = "process"
    /\ IF ~Staged(i) THEN RunFail(i, "Processing:Reader")
       ELSE LET e == processXPI(tmpFiles[runs[i].tempFilePath])
            IN  IF e = "none" THEN RunGoes(i, "resolve") ELSE RunFail(i, e)
    /\ UNCHANGED <<tmpFiles, extFiles, fsDirs, log, concurrentFrame>>

\* line 184
RunResolve(i) ==
    /\ runs[i].pc = "resolve"
    /\ LET r == xpiGetFirefoxExtensionsDirectory(profilesIni, fsDirs, fsFiles)
       IN  /\ fsDirs' = r.dirs
           /\ IF r.ret.ok THEN RunGoes(i, "identity") ELSE RunFail(i, r.ret.err)
    /\ UNCHANGED <<tmpFiles, extFiles, log, concurrentFrame>>

\* line 186: the manifest is read from the file of that name
RunIdentity(i) ==
    /\ runs[i].pc = "identity"
    /\ IF Staged(i) /\ getExtensionId(tmpFiles[runs[i].tempFilePath].manifest).ok
       THEN runs' = [runs EXCEPT ![i].pc = "commit",
                                 ![i].id = getExtensionId(tmpFiles[runs[i].tempFilePath].manifest).id]
       ELSE RunFail(i, "Parse:Identity")
    /\ UNCHANGED <<tmpFiles, extFiles, fsDirs, log, concurrentFrame>>

\* lines 189-191: copyFileSync of the file of that name; the identity is the
\* one line 186 read
RunCommit(i) ==
    /\ runs[i].pc = "commit"
    /\ IF Staged(i)
       THEN /\ extFiles' = Put(extFiles, runs[i].id, tmpFiles[runs[i].tempFilePath])
            /\ RunGoes(i, "cleanup")
       ELSE extFiles' = extFiles /\ RunFail(i, "Filesystem:Copy")
    /\ UNCHANGED <<tmpFiles, fsDirs, log, concurrentFrame>>

\* lines 193-200: unlink of the file of that name, which throws when there is
\* none
RunCleanup(i) ==
    /\ runs[i].pc = "cleanup"
    /\ tmpFiles' = IF Staged(i) THEN Remove(tmpFiles, runs[i].tempFilePath) ELSE tmpFiles
    /\ log' = IF Staged(i) THEN log
              ELSE Append(log, Report("warn", "Failed to delete temporary file"))
    /\ runs' = [runs EXCEPT ![i].pc = "settled",
                            ![i].result = FinallyResult(runs[i].pending, ~Staged(i))]
    /\ UNCHANGED <<extFiles, fsDirs, concurrentFrame>>

NextConcurrent ==
    \E i \in Invocations :
        \/ RunBegin(i)
        \/ RunDownload(i)
        \/ RunStage(i)
        \/ RunProcess(i)
        \/ RunResolve(i)
        \/ RunIdentity(i)
        \/ RunCommit(i)
        \/ RunCleanup(i)

SpecConcurrent == InitConcurrent /\ [][NextConcurrent]_vars

\* C19: two invocations that are inside an install at the same time have
\* different staged file names, and an invocation between its stage step and
\* its cleanup finds under its name the archive it staged.
C19_ConcurrentStagedPathsDistinct ==
    /\ \A i, j \in Invocations :
          i # j /\ InProgress(i) /\ InProgress(j) =>
              runs[i].tempFilePath # runs[j].tempFilePath
    /\ \A i \in Invocations :
          runs[i].pc \in {"process", "resolve", "identity", "commit"} =>
              Staged(i) /\ tmpFiles[runs[i].tempFilePath] = runs[i].archive

----------------------------------------------------------------------------
(* The two parsers of profiles.ini side by side *)

\* C20: once both parsers have read a registry text they agree: either both
\* yield a relative profile path, and the same one, or both yield none (an
\* empty path counts as none, as the callers of both parsers treat it).
C20_ParsersAgree ==
    (discOut.done /\ xpiOut.done) =>
        /\ Truthy(discOut) <=> Truthy(xpiOut)
        /\ Truthy(discOut) => discOut.val = xpiOut.val

----------------------------------------------------------------------------
(* The second pass of the two parsers *)

\* the path the second pass reads from a Path= line (split("=")[1], trimmed)
PathRead(l) == Trim(OrEmpty(Second(Split(Trim(l), "="))))

\* some [Profile...] section holds a Path= key giving that path and, after
\* it, a key starting with Default=1
CommittedInOneProfileSection(lines, path) ==
    \E h \in ProfileHeaders(lines) :
        \E i, j \in SectionLines(lines, h) :
            /\ i < j
            /\ IsKeyLine(lines[i], S_PathEq) /\ PathRead(lines[i]) = path
            /\ IsKeyLine(lines[j], S_DefaultEq1)

\* C21: a path that the second pass of either parser returns is supplied by
\* a Path= key and committed by a later Default=1 key of the same
\* [Profile...] section.
C21_SecondPassWithinOneSection ==
    LET lines == IniLinesOf(profilesIni.text)
    IN  /\ (discOut.done /\ Truthy(discOut) /\ ~DiscPass1(lines, 1, FALSE).returned) =>
              CommittedInOneProfileSection(lines, discOut.val)
        /\ (xpiOut.done /\ Truthy(xpiOut) /\ ~Truthy(XpiPass1(lines, 1, FALSE))) =>
              CommittedInOneProfileSection(lines, xpiOut.val)

----------------------------------------------------------------------------
(* Specification SpecTarget: one install, with the path that lines 188-190 *)
(* copy the staged archive to computed from the identity's text            *)

\* an identity that holds a path separator
IdUp == "../up@example.com"

\* the characters of the identities
IdText(id) ==
    CASE id = IdUp -> <<".", ".", "/", "u", "p", "@", "e", "x", "a", "m", "p", "l", "e", ".", "c", "o", "m">>
      [] id = IdA -> <<"l", "e", "g", "a", "c", "y", "@", "e", "x", "a", "m", "p", "l", "e", ".", "c", "o", "m">>
      [] id = IdB -> <<"e", "x", "t", "@", "e", "x", "a", "m", "p", "l", "e", ".", "c", "o", "m">>

S_DotXpi == <<".", "x", "p", "i">>
S_DotDot == <<".", ".">>

\* path.resolve on components: a ".." component leaves the directory reached
\* so far, any other non-empty component enters it
RECURSIVE Normalize(_, _)
Normalize(reached, parts) ==
    IF parts = <<>> THEN reached
    ELSE IF Head(parts) = <<>> THEN Normalize(reached, Tail(parts))
    ELSE IF Head(parts) = S_DotDot
         THEN Normalize(IF reached = <<>> THEN <<>> ELSE SubSeq(reached, 1, Len(reached) - 1),
                        Tail(parts))
    ELSE Normalize(Append(reached, Head(parts)), Tail(parts))

\* line 188: resolve(xpiDirectory, `${extensionId}.xpi`)
TargetXpiPath(xpiDirectory, extensionId) ==
    Normalize(xpiDirectory, Split(IdText(extensionId) \o S_DotXpi, "/"))

TargetArchives ==
    { [reader |-> "error", manifest |-> LegacyManifest(IdA)],
      [reader |-> "end", manifest |-> LegacyManifest(IdA)],
      [reader |-> "end", manifest |-> ModernManifest(IdUp)],
      [reader |-> "end", manifest |-> AnonymousManifest] }

InitTarget ==
    /\ \E d \in InstallDisks :
          profilesIni = d.ini /\ fsDirs = d.dirs /\ fsFiles = d.files
    /\ urlsFile = [exists |-> TRUE, valid |-> TRUE, hasUrls |-> TRUE, urls |-> <<UrlA>>]
    /\ PipelineIdle
    /\ ParseIdle /\ LocIdle /\ RegIdle /\ ManIdle
    /\ AppIdle

\* line 177, for the archives above
DownloadTarget ==
    /\ pc = "download"
    /\ \/ \E a \in TargetArchives : buffer' = a /\ pc' = "stage" /\ pending' = pending
       \/ \E e \in {"Download:Network", "Download:Status"} : buffer' = buffer /\ Fail(e)
    /\ UNCHANGED <<urlsFile, batchPc, urlIndex, tempFilePath, tmpFiles, installResult, unlinkTried,
                   unlinkThrew, extFiles, log, attempted, outcomes, diskVars, exitCode, others>>

\* lines 188-190: copyFileSync to the resolved path, which needs the path's
\* directory to be there and which the disk may refuse; extFiles is keyed by
\* the path written
CommitTarget ==
    /\ pc = "commit"
    /\ LET xpiDirectory == xpiGetFirefoxExtensionsDirectory(profilesIni, fsDirs, fsFiles).ret.path
           extensionId == getExtensionId(tmpFiles[tempFilePath].manifest).id
           targetXpiPath == TargetXpiPath(xpiDirectory, extensionId)
           parent == SubSeq(targetXpiPath, 1, Len(targetXpiPath) - 1)
       IN  \/ /\ parent \in fsDirs /\ targetXpiPath \notin fsDirs
              /\ extFiles' = Put(extFiles, targetXpiPath, tmpFiles[tempFilePath])
              /\ fsFiles' = fsFiles \cup {targetXpiPath}
              /\ pc' = "cleanup" /\ pending' = pending
           \/ /\ extFiles' = extFiles /\ fsFiles' = fsFiles
              /\ Fail("Filesystem:Copy")
    /\ UNCHANGED <<urlsFile, batchPc, urlIndex, tempFilePath, buffer, tmpFiles, installResult,
                   unlinkTried, unlinkThrew, log, attempted, outcomes, profilesIni, fsDirs,
                   exitCode, others>>

NextTarget ==
    \/ BatchStart
    \/ InstallBegin
    \/ DownloadTarget
    \/ Stage
    \/ Process
    \/ ResolveDirectory
    \/ Identity
    \/ CommitTarget
    \/ Cleanup

SpecTarget == InitTarget /\ [][NextTarget]_vars

\* the extensions directory of the profile, and the file <identity>.xpi in it
ExtensionsDirectory == ProfileP \o <<N_extensions>>
IdentityFile(id) == ExtensionsDirectory \o <<IdText(id) \o S_DotXpi>>

\* C22: a step of an install changes the files on disk only when it is the
\* commit of an install whose every step succeeded, and then it adds or
\* replaces exactly one file, <identity>.xpi in the extensions directory,
\* with the staged archive; a step that fails creates at most the extensions
\* directory.
C22_OnlySuccessWritesIdentityFile ==
    [][ /\ (extFiles' # extFiles \/ fsFiles' # fsFiles) =>
              /\ pc = "commit" /\ pc' = "cleanup" /\ pending = "none" /\ pending' = "none"
              /\ \E id \in {IdA, IdB, IdUp} :
                    /\ getExtensionId(buffer.manifest).id = id
                    /\ extFiles' = Put(extFiles, IdentityFile(id), buffer)
                    /\ fsFiles' = fsFiles \cup {IdentityFile(id)}
        /\ fsDirs' \subseteq fsDirs \cup {ExtensionsDirectory}
      ]_vars

====
